---- MODULE Spec2Model ----
(***************************************************************************)
(* A model of the classification core of the JLPT Anki deck generators:    *)
(*   scripts/jmdict_utils.py       build_kanji_jlpt_map,                   *)
(*                                 build_kanji_frequency_map,              *)
(*                                 calculate_frequency_tiers,              *)
(*                                 get_word_jlpt_level,                    *)
(*                                 get_word_frequency_tier,                *)
(*                                 get_primary_form, process_word,         *)
(*                                 load_json                               *)
(*   scripts/create_kanji_decks.py load_kanjidic, process_character,       *)
(*                                 create_anki_csv, main                   *)
(*   scripts/create_vocab_decks.py create_vocab_csv, main                  *)
(*                                                                         *)
(* Specifications: SpecKanji (the kanji run), SpecVocab (the vocabulary    *)
(* run), SpecRuns (a run of either script), SpecTiers, SpecWord and        *)
(* SpecForm (a function called on its own).                                *)
(*                                                                         *)
(* Conventions.  A Python string is a sequence of code points.  An         *)
(* optional value (a key that may be missing from a JSON object, or a      *)
(* value that may be None) is None == <<>> or Some(v) == <<v>>.  A dict    *)
(* whose iteration order is never observed is a function; a dict whose     *)
(* order is observed (the frequency map, which gets sorted with a stable   *)
(* sort) is a sequence of [key, rank] records with distinct keys, in       *)
(* insertion order.                                                        *)
(***************************************************************************)
EXTENDS Integers, Sequences, FiniteSets, TLC

VARIABLES
    pc,              \* position of the program being run
    characters,      \* kanjidic_data["characters"]: the character collection
    mi,              \* records consumed by the loop of build_kanji_jlpt_map
    kanji_jlpt_map,  \* literal -> "N1".."N5"
    kanji_freq_map,  \* ordered dict literal -> frequency rank
    kanji_tier_map,  \* literal -> tier 1..4
    ci,              \* records consumed by the loop of create_kanji_decks.main
    jlpt_groups,     \* bucket name -> list of processed records
    processed,       \* counter of create_kanji_decks.main
    skipped,         \* counter of create_kanji_decks.main
    word,            \* the word entry handed to the word classifiers
    strategy,        \* the strategy handed to get_word_frequency_tier
    jlpt_level,      \* result of get_word_jlpt_level
    word_tier,       \* result of get_word_frequency_tier
    form,            \* result of get_primary_form
    kanjidic_file,   \* what the run finds at the path of the kanji dictionary
    jmdict_file,     \* what the run finds at the path of the word dictionary
    common_only,     \* args.common_only
    words,           \* jmdict_data["words"]: the word collection
    exit_status,     \* None while the run goes on, then Some status
    output_dir,      \* TRUE once output_dir.mkdir has made the directory
    files,           \* the deck files written, in the order of the calls
    ti               \* buckets consumed by the writing loop of main

\* the input of a run and what a run puts out
inputVars == <<kanjidic_file, jmdict_file, common_only, words>>
outputVars == <<exit_status, output_dir, files, ti>>

vars == <<pc, characters, mi, kanji_jlpt_map, kanji_freq_map, kanji_tier_map,
          ci, jlpt_groups, processed, skipped, word, strategy, jlpt_level,
          word_tier, form, inputVars, outputVars>>

(***************************************************************************)
(* Bounds of the model.                                                    *)
(***************************************************************************)
\* longest character collection
MaxChars == 2
\* grades of the single-record collections run from -2 to MaxGrade
MaxGrade == 20
\* most keys of a frequency map with freely chosen ranks, and the greatest rank
MaxKeys == 5
MaxRank == 5
\* most keys of a frequency map that ranks its keys 1..n
MaxRanked == 100
\* most kanji forms of a word, and most characters of all its forms together
MaxForms == 2
MaxWordChars == 3

(***************************************************************************)
(* Python values.                                                          *)
(***************************************************************************)
None == <<>>
Some(v) == <<v>>
Val(o) == o[1]

\* bool(x) of an optional integer: None and 0 are falsy
TruthyInt(o) == o # None /\ Val(o) # 0
\* bool(x) of an optional string: None and "" are falsy
TruthyStr(o) == o # None /\ Val(o) # <<>>

EmptyMap == [k \in {} |-> k]
MapSet(m, k, v) == (k :> v) @@ m

SeqsUpTo(S, n) == UNION {[1..k -> S] : k \in 0..n}

\* code points used as literals and as characters of words
\* U+4E00 (first CJK unified ideograph)
CJK_FIRST == 19968
\* U+9FFF (last code point of the block)
CJK_LAST == 40959

(***************************************************************************)
(* jmdict_utils.build_kanji_jlpt_map                                       *)
(***************************************************************************)
\* (the mutant swaps the entries of 4 and 3)
OLD_TO_NEW_JLPT_Swapped == (4 :> "N4") @@ (3 :> "N5") @@ (2 :> "None") @@ (1 :> "N1")

\* the table of lines 41-46; the entry of 2 is None and never read
OLD_TO_NEW_JLPT == (4 :> "N5") @@ (3 :> "N4") @@ (2 :> "None") @@ (1 :> "N1")

\* (the mutant has no case of its own for level 2 and reads the table)
MapCharacter_NoSplit(m, char) ==
    IF ~TruthyStr(char.literal) THEN m
    ELSE IF char.jlptLevel = None THEN m
    ELSE IF Val(char.jlptLevel) \in DOMAIN OLD_TO_NEW_JLPT
         THEN MapSet(m, Val(char.literal), OLD_TO_NEW_JLPT[Val(char.jlptLevel)])
    ELSE m

\* the body of the loop of lines 48-67: the map after one record
MapCharacter(m, char) ==
    IF ~TruthyStr(char.literal) THEN m
    ELSE IF char.jlptLevel = None THEN m
    ELSE IF Val(char.jlptLevel) = 2
         THEN IF TruthyInt(char.grade) /\ Val(char.grade) <= 6
              THEN MapSet(m, Val(char.literal), "N3")
              ELSE MapSet(m, Val(char.literal), "N2")
    ELSE IF Val(char.jlptLevel) \in DOMAIN OLD_TO_NEW_JLPT
         THEN MapSet(m, Val(char.literal), OLD_TO_NEW_JLPT[Val(char.jlptLevel)])
    ELSE m

(***************************************************************************)
(* create_kanji_decks.process_character.  The display fields (readings,    *)
(* meanings, stroke count, radical, nanori, Heisig numbers) take no part   *)
(* in classification and are left out of the record.                       *)
(***************************************************************************)
process_character(char) ==
    IF ~TruthyStr(char.literal) THEN None
    ELSE IF char.jlptLevel = None THEN None
    ELSE Some([kanji      |-> Val(char.literal),
               jlpt_level |-> Val(char.jlptLevel),
               grade      |-> char.grade,
               frequency  |-> char.frequency,
               tier       |-> None])

(***************************************************************************)
(* jmdict_utils.build_kanji_frequency_map.  The dict is kept as the        *)
(* sequence of its items in insertion order: assigning to a key that is    *)
(* present replaces the value and keeps the key's place.                   *)
(***************************************************************************)
DictKeys(d) == {d[i].key : i \in 1..Len(d)}

DictSet(d, k, v) ==
    IF k \in DictKeys(d)
    THEN [i \in 1..Len(d) |-> IF d[i].key = k THEN [key |-> k, rank |-> v] ELSE d[i]]
    ELSE Append(d, [key |-> k, rank |-> v])

\* (the mutant passes over a character without a JLPT level)
FreqCharacter_LevelOnly(d, char) ==
    IF ~TruthyStr(char.literal) THEN d
    ELSE IF char.frequency # None /\ char.jlptLevel # None
         THEN DictSet(d, Val(char.literal), Val(char.frequency))
    ELSE d

\* the body of the loop of lines 79-88: the dict after one record
FreqCharacter(d, char) ==
    IF ~TruthyStr(char.literal) THEN d
    ELSE IF char.frequency # None THEN DictSet(d, Val(char.literal), Val(char.frequency))
    ELSE d

RECURSIVE FreqLoop(_, _, _)
FreqLoop(d, chars, i) ==
    IF i > Len(chars) THEN d ELSE FreqLoop(FreqCharacter(d, chars[i]), chars, i + 1)

build_kanji_frequency_map(chars) == FreqLoop(<<>>, chars, 1)

(***************************************************************************)
(* jmdict_utils.calculate_frequency_tiers                                  *)
(***************************************************************************)
\* sorted(items, key=rank) is a stable sort: an item goes behind every item
\* of a rank that is not greater.  s is sorted; the result is s with x put in.
\* (the mutant puts x in front of the items of its own rank)
InsertByRank_Unstable(s, x) ==
    LET p == Cardinality({i \in 1..Len(s) : s[i].rank < x.rank})
    IN  SubSeq(s, 1, p) \o <<x>> \o SubSeq(s, p + 1, Len(s))

InsertByRank(s, x) ==
    LET p == Cardinality({i \in 1..Len(s) : s[i].rank <= x.rank})
    IN  SubSeq(s, 1, p) \o <<x>> \o SubSeq(s, p + 1, Len(s))

\* the items are put in one by one; acc holds the first Len(acc) of them, sorted
RECURSIVE SortLoop(_, _)
SortLoop(acc, items) ==
    IF Len(acc) = Len(items) THEN acc
    ELSE SortLoop(InsertByRank(acc, items[Len(acc) + 1]), items)

\* line 117
sorted_kanji(items) == SortLoop(<<>>, items)

\* lines 127-135.  percentile = (i / total) * 100 is a float; its comparisons
\* with 25, 50 and 75 agree with the exact ones for every total up to 4000
\* (i/total is 0.25, 0.5 or 0.75 exactly when the percentile is 25, 50 or 75,
\* and is further than a rounding error from them otherwise), so the model
\* compares 100 * i with 25, 50 and 75 times total.
\* (the mutant compares with <=)
TierOfIndex_Inclusive(i, total) ==
    IF 100 * i <= 25 * total THEN 1
    ELSE IF 100 * i <= 50 * total THEN 2
    ELSE IF 100 * i <= 75 * total THEN 3
    ELSE 4

\* (the mutant counts the position from 1)
TierOfIndex_OneBased(i, total) ==
    IF 100 * (i + 1) < 25 * total THEN 1
    ELSE IF 100 * (i + 1) < 50 * total THEN 2
    ELSE IF 100 * (i + 1) < 75 * total THEN 3
    ELSE 4

\* (the mutant rounds the percentile to a whole number before comparing)
TierOfIndex_Rounded(i, total) ==
    LET percentile == (100 * i + total \div 2) \div total
    IN  IF percentile < 25 THEN 1
        ELSE IF percentile < 50 THEN 2
        ELSE IF percentile < 75 THEN 3
        ELSE 4

\* (the mutant loses the monotone order of the branches)
TierOfIndex_Swapped(i, total) ==
    IF 100 * i < 25 * total THEN 2
    ELSE IF 100 * i < 50 * total THEN 1
    ELSE IF 100 * i < 75 * total THEN 3
    ELSE 4

TierOfIndex(i, total) ==
    IF 100 * i < 25 * total THEN 1
    ELSE IF 100 * i < 50 * total THEN 2
    ELSE IF 100 * i < 75 * total THEN 3
    ELSE 4

\* lines 113-137; i of enumerate is 0-based, the sequence is 1-based
calculate_frequency_tiers(freq_map) ==
    IF freq_map = <<>> THEN EmptyMap
    ELSE LET sorted == sorted_kanji(freq_map)
             total == Len(sorted)
         IN  [k \in DictKeys(freq_map) |->
                 LET i == CHOOSE j \in 1..total : sorted[j].key = k
                 IN  TierOfIndex(i - 1, total)]

(***************************************************************************)
(* The run over a character collection: build_kanji_jlpt_map of the        *)
(* vocabulary script, then main of create_kanji_decks, both over the same  *)
(* collection (the two share no state).  A dictionary file is "missing",   *)
(* "unreadable", "invalid_json" (not parseable), "no_key" (a JSON object    *)
(* without the top-level key the run reads) or "ok".                       *)
(***************************************************************************)
BucketNames == {"N5", "N4", "N3", "N2", "N1"}

FileStates == {"missing", "unreadable", "invalid_json", "no_key", "ok"}

\* no run of a script: the state of the files and of the output when a
\* function is called on its own
NoRun ==
    /\ kanjidic_file = "ok"
    /\ jmdict_file = "ok"
    /\ common_only = FALSE
    /\ words = <<>>
    /\ exit_status = None
    /\ output_dir = FALSE
    /\ files = <<>>
    /\ ti = 0

\* sys.exit(status)
Exit(status) ==
    /\ pc' = "exit"
    /\ exit_status' = Some(status)

\* (the mutant lets a file through that does not parse)
load_kanjidic_exits_Lenient(file) == file = "missing"

\* create_kanji_decks.load_kanjidic, lines 25-36 (and jmdict_utils.load_json,
\* lines 15-26): TRUE when the loader ends the run with sys.exit(1)
load_kanjidic_exits(file) == file \in {"missing", "invalid_json", "unreadable"}

\* build_kanji_jlpt_map, one iteration of the loop of lines 48-67
MapStep ==
    /\ pc = "map"
    /\ mi < Len(characters)
    /\ kanji_jlpt_map' = MapCharacter(kanji_jlpt_map, characters[mi + 1])
    /\ mi' = mi + 1
    /\ UNCHANGED <<pc, characters, kanji_freq_map, kanji_tier_map, ci, jlpt_groups,
                   processed, skipped, word, strategy, jlpt_level, word_tier,
                   form, inputVars, outputVars>>

\* build_kanji_jlpt_map, line 69: the loop is over and the map is returned
MapReturn ==
    /\ pc = "map"
    /\ mi = Len(characters)
    /\ pc' = "start"
    /\ UNCHANGED <<characters, mi, kanji_jlpt_map, kanji_freq_map, kanji_tier_map, ci,
                   jlpt_groups, processed, skipped, word, strategy, jlpt_level, word_tier,
                   form, inputVars, outputVars>>

\* create_kanji_decks.main, lines 257-264: the input file must exist
CheckInput ==
    /\ pc = "start"
    /\ IF kanjidic_file = "missing"
       THEN /\ Exit(1)
            /\ UNCHANGED <<output_dir, files, ti>>
       ELSE /\ pc' = "load"
            /\ UNCHANGED outputVars
    /\ UNCHANGED <<characters, mi, kanji_jlpt_map, kanji_freq_map, kanji_tier_map, ci,
                   jlpt_groups, processed, skipped, word, strategy, jlpt_level, word_tier,
                   form, inputVars>>

\* create_kanji_decks.main, line 267: data = load_kanjidic(input_file)
LoadKanjidic ==
    /\ pc = "load"
    /\ IF load_kanjidic_exits(kanjidic_file)
       THEN /\ Exit(1)
            /\ UNCHANGED <<output_dir, files, ti>>
       ELSE /\ pc' = "validate"
            /\ UNCHANGED outputVars
    /\ UNCHANGED <<characters, mi, kanji_jlpt_map, kanji_freq_map, kanji_tier_map, ci,
                   jlpt_groups, processed, skipped, word, strategy, jlpt_level, word_tier,
                   form, inputVars>>

\* create_kanji_decks.main, lines 270-274: "characters" not in data
ValidateData ==
    /\ pc = "validate"
    /\ IF kanjidic_file = "no_key"
       THEN /\ Exit(1)
            /\ UNCHANGED <<output_dir, files, ti>>
       ELSE /\ pc' = "tiers"
            /\ UNCHANGED outputVars
    /\ UNCHANGED <<characters, mi, kanji_jlpt_map, kanji_freq_map, kanji_tier_map, ci,
                   jlpt_groups, processed, skipped, word, strategy, jlpt_level, word_tier,
                   form, inputVars>>

\* create_kanji_decks.main, lines 276-294: the tier map, the empty buckets
\* and the counters
CalcTiers ==
    /\ pc = "tiers"
    /\ kanji_freq_map' = build_kanji_frequency_map(characters)
    /\ kanji_tier_map' = calculate_frequency_tiers(kanji_freq_map')
    /\ jlpt_groups' = [b \in BucketNames |-> <<>>]
    /\ processed' = 0
    /\ skipped' = 0
    /\ pc' = "group"
    /\ UNCHANGED <<characters, mi, kanji_jlpt_map, ci, word, strategy, jlpt_level,
                   word_tier,
                   form, inputVars, outputVars>>

\* lines 300-302: the tier is attached when the literal has one
WithTier(result, tiers) ==
    IF result.kanji \in DOMAIN tiers
    THEN [result EXCEPT !.tier = Some(tiers[result.kanji])]
    ELSE result

\* (the mutant splits level 2 at grade 7, not at grade 6)
GroupOf_SplitAtSeven(result) ==
    IF result.jlpt_level = 4 THEN Some("N5")
    ELSE IF result.jlpt_level = 3 THEN Some("N4")
    ELSE IF result.jlpt_level = 2
         THEN IF TruthyInt(result.grade) /\ Val(result.grade) <= 7
              THEN Some("N3") ELSE Some("N2")
    ELSE IF result.jlpt_level = 1 THEN Some("N1")
    ELSE None

\* (the mutant files a record of an unknown level under N1)
GroupOf_UnknownAsN1(result) ==
    IF result.jlpt_level = 4 THEN Some("N5")
    ELSE IF result.jlpt_level = 3 THEN Some("N4")
    ELSE IF result.jlpt_level = 2
         THEN IF TruthyInt(result.grade) /\ Val(result.grade) <= 6
              THEN Some("N3") ELSE Some("N2")
    ELSE Some("N1")

\* (the mutant has no bucket for level 1)
GroupOf_LosesN1(result) ==
    IF result.jlpt_level = 4 THEN Some("N5")
    ELSE IF result.jlpt_level = 3 THEN Some("N4")
    ELSE IF result.jlpt_level = 2
         THEN IF TruthyInt(result.grade) /\ Val(result.grade) <= 6
              THEN Some("N3") ELSE Some("N2")
    ELSE None

\* lines 304-320: the bucket of a processed record, None for "unknown level"
GroupOf(result) ==
    IF result.jlpt_level = 4 THEN Some("N5")
    ELSE IF result.jlpt_level = 3 THEN Some("N4")
    ELSE IF result.jlpt_level = 2
         THEN IF TruthyInt(result.grade) /\ Val(result.grade) <= 6
              THEN Some("N3") ELSE Some("N2")
    ELSE IF result.jlpt_level = 1 THEN Some("N1")
    ELSE None

\* create_kanji_decks.main, one iteration of the loop of lines 296-323
GroupStep ==
    /\ pc = "group"
    /\ ci < Len(characters)
    /\ LET result == process_character(characters[ci + 1])
       IN  IF result # None
           THEN LET r == WithTier(Val(result), kanji_tier_map)
                    g == GroupOf(r)
                IN  IF g # None
                    THEN /\ jlpt_groups' =
                              [jlpt_groups EXCEPT ![Val(g)] = Append(@, r)]
                         /\ processed' = processed + 1
                         /\ skipped' = skipped
                    ELSE /\ skipped' = skipped + 1
                         /\ UNCHANGED <<jlpt_groups, processed>>
           ELSE /\ skipped' = skipped + 1
                /\ UNCHANGED <<jlpt_groups, processed>>
    /\ ci' = ci + 1
    /\ UNCHANGED <<pc, characters, mi, kanji_jlpt_map, kanji_freq_map, kanji_tier_map,
                   word, strategy, jlpt_level, word_tier,
                   form, inputVars, outputVars>>

\* create_kanji_decks.main, line 325: the loop is over
GroupDone ==
    /\ pc = "group"
    /\ ci = Len(characters)
    /\ pc' = "mkdir"
    /\ UNCHANGED <<characters, mi, kanji_jlpt_map, kanji_freq_map, kanji_tier_map, ci,
                   jlpt_groups, processed, skipped, word, strategy, jlpt_level, word_tier,
                   form, inputVars, outputVars>>

\* create_kanji_decks.main, line 330: output_dir.mkdir(exist_ok=True)
MakeOutputDir ==
    /\ pc = "mkdir"
    /\ output_dir' = TRUE
    /\ pc' = "write"
    /\ UNCHANGED <<characters, mi, kanji_jlpt_map, kanji_freq_map, kanji_tier_map, ci,
                   jlpt_groups, processed, skipped, word, strategy, jlpt_level, word_tier,
                   form, inputVars, exit_status, files, ti>>

\* line 334: the buckets in the order the writing loop takes them
TierOrder == <<"N5", "N4", "N3", "N2", "N1">>

\* line 337: output_dir / f"jlpt_{tier}_kanji.csv"
KanjiPath(tier) == <<"jlpt_", tier, "_kanji.csv">>

\* create_anki_csv, lines 199-209: the row of one record.  The back field
\* keeps the one part made from a field of the model, the frequency; a tag
\* is the sequence of its label and its number.
KanjiRow(char, jlpt_tier) ==
    [kanji |-> char.kanji,
     back  |-> IF TruthyInt(char.frequency)
               THEN <<<<"Freq: #", Val(char.frequency)>>>> ELSE <<>>,
     tags  |-> <<<<jlpt_tier>>>>
                 \o (IF TruthyInt(char.grade)
                     THEN <<<<"grade", Val(char.grade)>>>> ELSE <<>>)
                 \o (IF TruthyInt(char.tier)
                     THEN <<<<"freq_tier", Val(char.tier)>>>> ELSE <<>>)]

\* (the mutant writes the rows in the reverse order)
create_anki_csv_Reversed(chars, output_path, jlpt_tier) ==
    [path |-> output_path,
     rows |-> [k \in 1..Len(chars) |-> KanjiRow(chars[Len(chars) + 1 - k], jlpt_tier)]]

\* create_anki_csv, lines 193-216: the file written, its rows below the header
create_anki_csv(chars, output_path, jlpt_tier) ==
    [path |-> output_path,
     rows |-> [k \in 1..Len(chars) |-> KanjiRow(chars[k], jlpt_tier)]]

\* (the mutant writes a file for an empty bucket as well)
WriteStep_EmptyToo ==
    /\ pc = "write"
    /\ ti < Len(TierOrder)
    /\ LET tier == TierOrder[ti + 1]
           chars == jlpt_groups[tier]
       IN  files' = Append(files, create_anki_csv(chars, KanjiPath(tier), tier))
    /\ ti' = ti + 1
    /\ UNCHANGED <<pc, characters, mi, kanji_jlpt_map, kanji_freq_map, kanji_tier_map, ci,
                   jlpt_groups, processed, skipped, word, strategy, jlpt_level, word_tier,
                   form, inputVars, exit_status, output_dir>>

\* create_kanji_decks.main, one iteration of the loop of lines 334-338
WriteStep ==
    /\ pc = "write"
    /\ ti < Len(TierOrder)
    /\ LET tier == TierOrder[ti + 1]
           chars == jlpt_groups[tier]
       IN  files' = IF chars # <<>>
                    THEN Append(files, create_anki_csv(chars, KanjiPath(tier), tier))
                    ELSE files
    /\ ti' = ti + 1
    /\ UNCHANGED <<pc, characters, mi, kanji_jlpt_map, kanji_freq_map, kanji_tier_map, ci,
                   jlpt_groups, processed, skipped, word, strategy, jlpt_level, word_tier,
                   form, inputVars, exit_status, output_dir>>

\* create_kanji_decks.main, lines 340-361: the summary is printed and main
\* returns
WriteDone ==
    /\ pc = "write"
    /\ ti = Len(TierOrder)
    /\ pc' = "done"
    /\ exit_status' = Some(0)
    /\ UNCHANGED <<characters, mi, kanji_jlpt_map, kanji_freq_map, kanji_tier_map, ci,
                   jlpt_groups, processed, skipped, word, strategy, jlpt_level, word_tier,
                   form, inputVars, output_dir, files, ti>>

(* The character collections of the run.  Literals: the ideographs U+4E00  *)
(* and U+4E8C.  The collections of up to MaxChars records draw the level   *)
(* from {absent, 2, 4, 5} and the grade from {absent, 6, 7}; the           *)
(* collections of one record draw them from every level in 0..5 and every  *)
(* grade in -2..MaxGrade, with the empty literal as well; the collections  *)
(* of RankedRecords carry frequency ranks.                                 *)

CharRecords(literals, levels, grades, freqs) ==
    [literal : literals, jlptLevel : levels, grade : grades, frequency : freqs]

Opt(S) == {None} \cup {Some(v) : v \in S}

SmallRecords ==
    CharRecords(Opt({<<CJK_FIRST>>, <<20108>>}), Opt({2, 4, 5}), Opt({6, 7}), {None})

WideRecords ==
    CharRecords(Opt({<<>>, <<CJK_FIRST>>}), Opt(0..5), Opt((-2)..MaxGrade),
                Opt({1}))

\* records with a frequency rank (0, 1 or 2) or without one, of level 4 or
\* of no level
RankedRecords ==
    CharRecords({Some(<<CJK_FIRST>>), Some(<<20108>>)}, Opt({4}), {None}, Opt({0, 1, 2}))

InitKanji ==
    /\ \/ /\ kanjidic_file = "ok"
          /\ characters \in SeqsUpTo(SmallRecords, MaxChars)
                               \cup {<<r>> : r \in WideRecords}
                               \cup SeqsUpTo(RankedRecords, MaxChars)
       \/ /\ kanjidic_file \in FileStates \ {"ok"}
          /\ characters = <<>>
    /\ jmdict_file = "ok"
    /\ common_only = FALSE
    /\ words = <<>>
    /\ exit_status = None
    /\ output_dir = FALSE
    /\ files = <<>>
    /\ ti = 0
    /\ form = None
    /\ pc = "map"
    /\ mi = 0
    /\ kanji_jlpt_map = EmptyMap
    /\ kanji_freq_map = <<>>
    /\ kanji_tier_map = EmptyMap
    /\ ci = 0
    /\ jlpt_groups = [b \in BucketNames |-> <<>>]
    /\ processed = 0
    /\ skipped = 0
    /\ word = None
    /\ strategy = "conservative"
    /\ jlpt_level = None
    /\ word_tier = None

NextKanji ==
    \/ MapStep \/ MapReturn
    \/ CheckInput \/ LoadKanjidic \/ ValidateData
    \/ CalcTiers \/ GroupStep \/ GroupDone
    \/ MakeOutputDir \/ WriteStep \/ WriteDone

SpecKanji == InitKanji /\ [][NextKanji]_vars

(***************************************************************************)
(* Properties of the level mapper.                                         *)
(***************************************************************************)
\* the record the map loop, and the grouping loop, consumed last
LastMapped == characters[mi]
LastGrouped == characters[ci]

HasLiteral(char) == char.literal # None /\ Val(char.literal) # <<>>
LevelIs(char, l) == char.jlptLevel # None /\ Val(char.jlptLevel) = l

\* the state right after the loop of main consumed a record with a literal
\* and bucketed it under b
GroupedUnder(b) ==
    /\ jlpt_groups[b] # <<>>
    /\ jlpt_groups[b][Len(jlpt_groups[b])].kanji = Val(LastGrouped.literal)
    /\ jlpt_groups[b][Len(jlpt_groups[b])].jlpt_level = Val(LastGrouped.jlptLevel)
    /\ jlpt_groups[b][Len(jlpt_groups[b])].grade = LastGrouped.grade
    /\ processed >= 1

\* C1: for a character with a literal, legacy level 4 maps to N5, 3 to N4 and
\* 1 to N1 whatever the grade (absent or 1..MaxGrade), and legacy level 2 maps
\* to N3 exactly when the grade is present and at most 6, otherwise to N2;
\* checked on the map entry right after build_kanji_jlpt_map consumed the
\* record and on the bucket right after main of create_kanji_decks did.
C1_LevelMapping ==
    LET InClaim(char) == /\ HasLiteral(char)
                         /\ char.grade = None \/ Val(char.grade) \in 1..MaxGrade
        Level(char) ==
            IF LevelIs(char, 4) THEN "N5"
            ELSE IF LevelIs(char, 3) THEN "N4"
            ELSE IF LevelIs(char, 1) THEN "N1"
            ELSE IF char.grade # None /\ Val(char.grade) <= 6 THEN "N3"
            ELSE "N2"
        HasLevel(char) == \E l \in 1..4 : LevelIs(char, l)
    IN  /\ (mi >= 1 /\ InClaim(LastMapped) /\ HasLevel(LastMapped))
            => /\ Val(LastMapped.literal) \in DOMAIN kanji_jlpt_map
               /\ kanji_jlpt_map[Val(LastMapped.literal)] = Level(LastMapped)
        /\ (ci >= 1 /\ InClaim(LastGrouped) /\ HasLevel(LastGrouped))
            => GroupedUnder(Level(LastGrouped))

\* witness of C1: a level 2 character of grade 6 went to N3 and the level 2
\* character of grade 7 behind it went to N2, in the map and in the buckets
C1_Witness ==
    /\ pc = "done"
    /\ Len(characters) = 2
    /\ LevelIs(characters[1], 2) /\ characters[1].grade = Some(6)
    /\ LevelIs(characters[2], 2) /\ characters[2].grade = Some(7)
    /\ characters[1].literal = Some(<<CJK_FIRST>>)
    /\ characters[2].literal = Some(<<20108>>)
    /\ kanji_jlpt_map[<<CJK_FIRST>>] = "N3"
    /\ kanji_jlpt_map[<<20108>>] = "N2"
    /\ Len(jlpt_groups["N3"]) = 1
    /\ Len(jlpt_groups["N2"]) = 1

\* C2 as claimed: for a character with legacy level 2 and a present grade g,
\* the level is N3 whenever g <= 6 and N2 whenever g > 6, for every integer g
\* (0 and the negative ones too), in build_kanji_jlpt_map and in the grouping
\* of main.  The code reads the grade 0 as an absent grade.
C2_EveryIntegerGrade ==
    LET InClaim(char) == HasLiteral(char) /\ LevelIs(char, 2) /\ char.grade # None
        Level(char) == IF Val(char.grade) <= 6 THEN "N3" ELSE "N2"
    IN  /\ (mi >= 1 /\ InClaim(LastMapped))
            => kanji_jlpt_map[Val(LastMapped.literal)] = Level(LastMapped)
        /\ (ci >= 1 /\ InClaim(LastGrouped))
            => GroupedUnder(Level(LastGrouped))

\* a record no level is mapped from
Unmappable(char) ==
    \/ ~HasLiteral(char)
    \/ char.jlptLevel = None
    \/ Val(char.jlptLevel) \notin 1..4

\* C3: a record with no literal, no legacy level or a level outside 1..4 is
\* never mapped: the step of build_kanji_jlpt_map that consumes it leaves the
\* map as it is, the step of main that consumes it leaves every bucket as it
\* is and counts it as skipped, and both loops go on with the next record.
C3_UnmappableSkipped ==
    [][ /\ (pc = "map" /\ mi < Len(characters) /\ Unmappable(characters[mi + 1]))
            => /\ kanji_jlpt_map' = kanji_jlpt_map
               /\ mi' = mi + 1
               /\ pc' = "map"
        /\ (pc = "group" /\ ci < Len(characters) /\ Unmappable(characters[ci + 1]))
            => /\ jlpt_groups' = jlpt_groups
               /\ skipped' = skipped + 1
               /\ processed' = processed
               /\ ci' = ci + 1
               /\ pc' = "group" ]_vars

\* witness of C3: a record of the unknown level 5 was skipped and the record
\* behind it was mapped and bucketed
C3_Witness ==
    /\ pc = "done"
    /\ Len(characters) = 2
    /\ HasLiteral(characters[1]) /\ LevelIs(characters[1], 5)
    /\ HasLiteral(characters[2]) /\ LevelIs(characters[2], 4)
    /\ characters[1].literal # characters[2].literal
    /\ DOMAIN kanji_jlpt_map = {Val(characters[2].literal)}
    /\ skipped = 1
    /\ processed = 1
    /\ Len(jlpt_groups["N5"]) = 1

(***************************************************************************)
(* calculate_frequency_tiers applied to a frequency map.                   *)
(***************************************************************************)
\* the j-th key put into the map: the ideograph U+4E00 + j - 1
KeyOf(j) == <<CJK_FIRST + j - 1>>

\* the map that got the keys KeyOf(1), KeyOf(2), ... in this order, with ranks r
FreqMapOf(r) == [j \in 1..Len(r) |-> [key |-> KeyOf(j), rank |-> r[j]]]

\* every map of up to MaxKeys keys with ranks in 1..MaxRank, and the maps that
\* rank n keys 1..n, put in by rising and by falling rank, up to MaxRanked keys
FreqMaps ==
    {FreqMapOf(r) : r \in SeqsUpTo(1..MaxRank, MaxKeys)}
    \cup {FreqMapOf([j \in 1..n |-> j]) : n \in 0..MaxRanked}
    \cup {FreqMapOf([j \in 1..n |-> n + 1 - j]) : n \in 0..MaxRanked}

InitTiers ==
    /\ kanji_freq_map \in FreqMaps
    /\ pc = "tiers_call"
    /\ kanji_tier_map = EmptyMap
    /\ characters = <<>>
    /\ mi = 0
    /\ kanji_jlpt_map = EmptyMap
    /\ ci = 0
    /\ jlpt_groups = [b \in BucketNames |-> <<>>]
    /\ processed = 0
    /\ skipped = 0
    /\ word = None
    /\ strategy = "conservative"
    /\ jlpt_level = None
    /\ word_tier = None
    /\ form = None
    /\ NoRun

\* kanji_tier_map = calculate_frequency_tiers(kanji_freq_map)
CallTiers ==
    /\ pc = "tiers_call"
    /\ kanji_tier_map' = calculate_frequency_tiers(kanji_freq_map)
    /\ pc' = "tiers_done"
    /\ UNCHANGED <<characters, mi, kanji_jlpt_map, kanji_freq_map, ci, jlpt_groups,
                   processed, skipped, word, strategy, jlpt_level, word_tier,
                   form, inputVars, outputVars>>

NextTiers == CallTiers

SpecTiers == InitTiers /\ [][NextTiers]_vars

(***************************************************************************)
(* Properties of the frequency tier calculator.                            *)
(***************************************************************************)
NKeys == Len(kanji_freq_map)
RankOf(j) == kanji_freq_map[j].rank
TierOf(j) == kanji_tier_map[kanji_freq_map[j].key]
TiersUsed == {TierOf(j) : j \in 1..NKeys}
TierSize(t) == Cardinality({j \in 1..NKeys : TierOf(j) = t})

\* C4: every key of the input gets exactly one tier in 1..4 and no other key
\* gets one (so the empty input gives the empty output); with four keys or
\* more all of the tiers 1, 2, 3, 4 are used, with fewer keys fewer tiers are.
C4_TiersPartitionKeys ==
    pc = "tiers_done" =>
        /\ DOMAIN kanji_tier_map = DictKeys(kanji_freq_map)
        /\ \A k \in DOMAIN kanji_tier_map : kanji_tier_map[k] \in 1..4
        /\ (NKeys = 0 => kanji_tier_map = EmptyMap)
        /\ (NKeys >= 4 => TiersUsed = 1..4)
        /\ (NKeys < 4 => Cardinality(TiersUsed) < 4)

\* witness of C4: five keys of one rank, spread over the four tiers
C4_Witness ==
    /\ pc = "tiers_done"
    /\ NKeys = 5
    /\ \A j \in 1..NKeys : RankOf(j) = 1
    /\ TiersUsed = 1..4
    /\ TierSize(1) = 2

\* C5 as claimed: rank(a) <= rank(b) implies tier(a) <= tier(b) for any two
\* keys, whether or not the ranks are distinct.  Two keys of one rank stand at
\* two positions of the sorted order and may get two tiers.
C5_MonotoneWithTies ==
    pc = "tiers_done" =>
        \A a, b \in 1..NKeys : RankOf(a) <= RankOf(b) => TierOf(a) <= TierOf(b)

\* C5, amended: rank(a) < rank(b) implies tier(a) <= tier(b) for any two keys.
C5_MonotoneStrict ==
    pc = "tiers_done" =>
        \A a, b \in 1..NKeys : RankOf(a) < RankOf(b) => TierOf(a) <= TierOf(b)

\* witness of C5: the key put in later has the smaller rank and the smaller tier
C5_Witness ==
    /\ pc = "tiers_done"
    /\ NKeys = 2
    /\ RankOf(2) < RankOf(1)
    /\ TierOf(2) = 1
    /\ TierOf(1) = 3

\* C6: the key at 0-based position i of the ascending-rank order of N keys has
\* tier 1 if i/N < 1/4, tier 2 if i/N < 1/2, tier 3 if i/N < 3/4, else tier 4,
\* a position at exactly a quarter, a half or three quarters going to the
\* following tier; when N is a multiple of 4 each tier holds N/4 keys; 100
\* keys ranked 1..100 split as ranks 1-25, 26-50, 51-75, 76-100.
C6_PercentileTiers ==
    pc = "tiers_done" =>
        LET order == sorted_kanji(kanji_freq_map)
            N == Len(order)
        IN  /\ \A i \in 0..(N - 1) :
                  kanji_tier_map[order[i + 1].key] =
                      IF 4 * i < N THEN 1
                      ELSE IF 2 * i < N THEN 2
                      ELSE IF 4 * i < 3 * N THEN 3
                      ELSE 4
            /\ \A i \in 0..(N - 1) :
                  /\ 4 * i = N => kanji_tier_map[order[i + 1].key] = 2
                  /\ 2 * i = N => kanji_tier_map[order[i + 1].key] = 3
                  /\ 4 * i = 3 * N => kanji_tier_map[order[i + 1].key] = 4
            /\ N % 4 = 0 => \A t \in 1..4 : TierSize(t) = N \div 4
            /\ (N = 100 /\ {RankOf(j) : j \in 1..N} = 1..100) =>
                  \A j \in 1..N : TierOf(j) = ((RankOf(j) - 1) \div 25) + 1

\* witness of C6: 100 keys ranked 1..100, put in by falling rank
C6_Witness ==
    /\ pc = "tiers_done"
    /\ NKeys = 100
    /\ RankOf(1) = 100
    /\ RankOf(100) = 1
    /\ TierOf(100) = 1
    /\ TierOf(76) = 1
    /\ TierOf(75) = 2
    /\ TierOf(1) = 4
    /\ \A t \in 1..4 : TierSize(t) = 25

\* the position of the j-th key in the ascending-rank order, ties in the order
\* of insertion: the keys of a smaller rank and the earlier keys of its rank
StablePosition(j) ==
    Cardinality({i \in 1..NKeys : RankOf(i) < RankOf(j)})
    + Cardinality({i \in 1..(j - 1) : RankOf(i) = RankOf(j)})

\* C7: the tiers are a function of the ranks and the insertion order alone
\* (each key's tier is the tier of its position in the stable order), and of
\* two keys of one rank the one put in earlier never gets the higher tier.
C7_StableAndReproducible ==
    pc = "tiers_done" =>
        /\ \A j \in 1..NKeys :
              LET i == StablePosition(j)
              IN  TierOf(j) = IF 4 * i < NKeys THEN 1
                              ELSE IF 2 * i < NKeys THEN 2
                              ELSE IF 4 * i < 3 * NKeys THEN 3
                              ELSE 4
        /\ \A a, b \in 1..NKeys :
              (a < b /\ RankOf(a) = RankOf(b)) => TierOf(a) <= TierOf(b)

\* witness of C7: two keys of one rank, the earlier in tier 1, the later in 3
C7_Witness ==
    /\ pc = "tiers_done"
    /\ NKeys = 2
    /\ RankOf(1) = RankOf(2)
    /\ TierOf(1) = 1
    /\ TierOf(2) = 3

(***************************************************************************)
(* jmdict_utils.get_word_jlpt_level and get_word_frequency_tier.  A word   *)
(* is a record whose field kanji is None (the key is missing) or Some      *)
(* list of forms; a form is a record with the field text.                  *)
(***************************************************************************)
\* word.get("kanji", [])
KanjiForms(w) == IF w.kanji = None THEN <<>> ELSE Val(w.kanji)

\* (the mutant takes every character for an ideograph)
IsKanji_Any(char) == char = char

\* "\u4e00" <= char <= "\u9fff": strings of one character compare by code point
IsKanji(char) == CJK_FIRST <= char /\ char <= CJK_LAST

\* lines 218-221 (and 179-182): the values found for the characters of one
\* text, appended to found
RECURSIVE ScanText(_, _, _, _)
ScanText(found, text, i, lookup) ==
    IF i > Len(text) THEN found
    ELSE IF IsKanji(text[i]) /\ <<text[i]>> \in DOMAIN lookup
         THEN ScanText(Append(found, lookup[<<text[i]>>]), text, i + 1, lookup)
         ELSE ScanText(found, text, i + 1, lookup)

\* lines 216-221 (and 177-182): the loop over the forms
RECURSIVE ScanForms(_, _, _, _)
ScanForms(found, forms, f, lookup) ==
    IF f > Len(forms) THEN found
    ELSE ScanForms(ScanText(found, forms[f].text, 1, lookup), forms, f + 1, lookup)

\* line 229; N1 is the most difficult level
level_priority == ("N1" :> 5) @@ ("N2" :> 4) @@ ("N3" :> 3) @@ ("N4" :> 2) @@ ("N5" :> 1)

\* level_priority.get(level, 0)
PriorityOf(level) == IF level \in DOMAIN level_priority THEN level_priority[level] ELSE 0

\* (the mutant keeps the level found last instead of the most difficult one)
RECURSIVE MaxLevelLoop_Last(_, _, _, _)
MaxLevelLoop_Last(levels, i, max_priority, max_level) ==
    IF i > Len(levels) THEN max_level
    ELSE MaxLevelLoop_Last(levels, i + 1, PriorityOf(levels[i]), levels[i])

\* lines 231-238
RECURSIVE MaxLevelLoopFrom(_, _, _, _)
MaxLevelLoopFrom(levels, i, max_priority, max_level) ==
    IF i > Len(levels) THEN max_level
    ELSE IF PriorityOf(levels[i]) > max_priority
         THEN MaxLevelLoopFrom(levels, i + 1, level_priority[levels[i]], levels[i])
         ELSE MaxLevelLoopFrom(levels, i + 1, max_priority, max_level)

MaxLevelLoop(levels, i, max_priority, max_level) ==
    MaxLevelLoopFrom(levels, i, max_priority, max_level)

\* (the mutant does not return early for a word without kanji forms)
get_word_jlpt_level_NoKanaCheck(w, lookup) ==
    LET levels_found == ScanForms(<<>>, KanjiForms(w), 1, lookup)
    IN  IF levels_found = <<>> THEN "non_jlpt"
        ELSE MaxLevelLoop(levels_found, 1, 0, levels_found[1])

\* (the mutant takes a word without a listed kanji for a kana word)
get_word_jlpt_level_MissAsKana(w, lookup) ==
    LET levels_found == ScanForms(<<>>, KanjiForms(w), 1, lookup)
    IN  IF levels_found = <<>> THEN "kana_only"
        ELSE MaxLevelLoop(levels_found, 1, 0, levels_found[1])

\* lines 202-238
get_word_jlpt_level(w, lookup) ==
    LET kanji_forms == KanjiForms(w)
    IN  IF kanji_forms = <<>> THEN "kana_only"
        ELSE LET levels_found == ScanForms(<<>>, kanji_forms, 1, lookup)
             IN  IF levels_found = <<>> THEN "non_jlpt"
                 ELSE MaxLevelLoop(levels_found, 1, 0, levels_found[1])

\* max(tiers_found) and sum(tiers_found)
SeqMax(s) == CHOOSE m \in {s[i] : i \in 1..Len(s)} : \A i \in 1..Len(s) : s[i] <= m

RECURSIVE SeqSum(_)
SeqSum(s) == IF s = <<>> THEN 0 ELSE Head(s) + SeqSum(Tail(s))

\* (the mutant rounds the mean down)
CeilDiv_Floor(a, b) == a \div b

\* math.ceil(a / b) for a >= 0 and b > 0
CeilDiv(a, b) == (a + b - 1) \div b

\* (the mutant returns the tier found first, whatever the strategy)
get_word_frequency_tier_FirstFound(w, lookup, strat) ==
    LET kanji_forms == KanjiForms(w)
    IN  IF kanji_forms = <<>> THEN None
        ELSE LET tiers_found == ScanForms(<<>>, kanji_forms, 1, lookup)
             IN  IF tiers_found = <<>> THEN None
                 ELSE Some(tiers_found[1])

\* lines 140-199; the result is None or Some tier
get_word_frequency_tier(w, lookup, strat) ==
    LET kanji_forms == KanjiForms(w)
    IN  IF kanji_forms = <<>> THEN None
        ELSE LET tiers_found == ScanForms(<<>>, kanji_forms, 1, lookup)
             IN  IF tiers_found = <<>> THEN None
                 ELSE IF strat = "conservative" THEN Some(SeqMax(tiers_found))
                 ELSE IF strat = "average"
                      THEN Some(CeilDiv(SeqSum(tiers_found), Len(tiers_found)))
                 ELSE IF strat = "first" THEN Some(tiers_found[1])
                 ELSE Some(SeqMax(tiers_found))

(***************************************************************************)
(* The word classifiers applied to a word.                                 *)
(***************************************************************************)
\* the characters of the words: U+65E5 and U+66DC, two ideographs, and U+3005,
\* the iteration mark, which lies outside U+4E00..U+9FFF
WordChars == {26085, 26332, 12293}

\* the lists of up to n forms with up to budget characters in all
RECURSIVE FormListsOf(_, _)
FormListsOf(n, budget) ==
    IF n = 0 THEN {<<>>}
    ELSE {<<>>} \cup
         UNION {{<<[text |-> t]>> \o rest : rest \in FormListsOf(n - 1, budget - Len(t))} :
                   t \in SeqsUpTo(WordChars, budget)}

FormLists == FormListsOf(MaxForms, MaxWordChars)

\* the two ends of the range U+4E00..U+9FFF and their outer neighbours U+4DFF
\* and U+A000
BoundaryChars == {19967, 19968, 40959, 40960}

Words ==
    {[kanji |-> None]}
        \cup {[kanji |-> Some(forms)] : forms \in FormLists}
        \cup {[kanji |-> Some(<<[text |-> <<c>>]>>)] : c \in BoundaryChars}

\* the lookups with keys among the three characters: any value for the two
\* ideographs, the hardest level (the rarest tier) for the iteration mark
\* and the lookups with one key among the boundary characters
LookupsInto(values, top) ==
    {m \in UNION {[keys -> values] : keys \in SUBSET {<<c>> : c \in WordChars}} :
        <<12293>> \in DOMAIN m => m[<<12293>>] = top}
        \cup UNION {[{<<c>>} -> values] : c \in BoundaryChars}

LevelMaps == LookupsInto({"N1", "N2", "N3", "N4", "N5"}, "N1")
TierMaps == LookupsInto(1..4, 4)
Strategies == {"conservative", "average", "first", "max"}

InitWord ==
    /\ word \in Words
    /\ pc = "word_call"
    /\ kanji_jlpt_map = EmptyMap
    /\ kanji_tier_map = EmptyMap
    /\ strategy = "conservative"
    /\ jlpt_level = None
    /\ word_tier = None
    /\ characters = <<>>
    /\ mi = 0
    /\ kanji_freq_map = <<>>
    /\ ci = 0
    /\ jlpt_groups = [b \in BucketNames |-> <<>>]
    /\ processed = 0
    /\ skipped = 0
    /\ form = None
    /\ NoRun

\* jlpt_level = get_word_jlpt_level(word, kanji_jlpt_map)
CallLevel ==
    /\ pc = "word_call"
    /\ \E m \in LevelMaps :
          /\ kanji_jlpt_map' = m
          /\ jlpt_level' = Some(get_word_jlpt_level(word, m))
    /\ pc' = "level_done"
    /\ UNCHANGED <<characters, mi, kanji_freq_map, kanji_tier_map, ci, jlpt_groups,
                   processed, skipped, word, strategy, word_tier,
                   form, inputVars, outputVars>>

\* word_tier = get_word_frequency_tier(word, kanji_tier_map, strategy)
CallTier ==
    /\ pc = "word_call"
    /\ \E m \in TierMaps, st \in Strategies :
          /\ kanji_tier_map' = m
          /\ strategy' = st
          /\ word_tier' = get_word_frequency_tier(word, m, st)
    /\ pc' = "tier_done"
    /\ UNCHANGED <<characters, mi, kanji_jlpt_map, kanji_freq_map, ci, jlpt_groups,
                   processed, skipped, word, jlpt_level,
                   form, inputVars, outputVars>>

NextWord == CallLevel \/ CallTier

SpecWord == InitWord /\ [][NextWord]_vars

(***************************************************************************)
(* Properties of the word classifiers.                                     *)
(***************************************************************************)
\* the forms of the word, and the places (form, index) of their characters
FormsOfWord == IF word.kanji = None THEN <<>> ELSE word.kanji[1]
Places == {p \in (1..Len(FormsOfWord)) \X (1..MaxWordChars) :
              p[2] <= Len(FormsOfWord[p[1]].text)}
CharAt(p) == FormsOfWord[p[1]].text[p[2]]

\* C8: a word with zero kanji forms (the key missing, or an empty list) is
\* classified kana_only and has no tier, whatever the lookup and the strategy.
C8_KanaOnly ==
    (word.kanji = None \/ word.kanji = Some(<<>>)) =>
        /\ pc = "level_done" => jlpt_level = Some("kana_only")
        /\ pc = "tier_done" => word_tier = None

\* witness of C8: the key kanji is missing, the lookup has all three keys
C8_Witness ==
    /\ pc = "level_done"
    /\ word.kanji = None
    /\ Cardinality(DOMAIN kanji_jlpt_map) = 3
    /\ jlpt_level = Some("kana_only")

\* C9: a word with at least one kanji form none of whose characters is a key
\* of the lookup is classified non_jlpt and has no tier.
C9_LookupMiss ==
    LET NoKey(lookup) == \A p \in Places : <<CharAt(p)>> \notin DOMAIN lookup
    IN  Len(FormsOfWord) >= 1 =>
            /\ (pc = "level_done" /\ NoKey(kanji_jlpt_map))
                   => jlpt_level = Some("non_jlpt")
            /\ (pc = "tier_done" /\ NoKey(kanji_tier_map)) => word_tier = None

\* witness of C9: a form of two ideographs, the lookup knows only the third
\* character
C9_Witness ==
    /\ pc = "level_done"
    /\ word.kanji = Some(<<[text |-> <<26332, 26085>>]>>)
    /\ DOMAIN kanji_jlpt_map = {<<12293>>}
    /\ jlpt_level = Some("non_jlpt")

\* the characters of the word that matched: ideographs that are keys
Matched(lookup) == {p \in Places : IsKanji(CharAt(p)) /\ <<CharAt(p)>> \in DOMAIN lookup}

\* a is at least as difficult as b: N1 > N2 > N3 > N4 > N5
AtLeastAsHard(a, b) ==
    LET order == <<"N5", "N4", "N3", "N2", "N1">>
        At(l) == CHOOSE i \in 1..5 : order[i] = l
    IN  At(a) >= At(b)

\* C10: when a character of the word's kanji forms matched, the level of the
\* word is the level of some matched character and no matched character has a
\* more difficult level.
C10_HardestWins ==
    (pc = "level_done" /\ Matched(kanji_jlpt_map) # {}) =>
        /\ \E p \in Matched(kanji_jlpt_map) :
              jlpt_level = Some(kanji_jlpt_map[<<CharAt(p)>>])
        /\ \A p \in Matched(kanji_jlpt_map) :
              AtLeastAsHard(Val(jlpt_level), kanji_jlpt_map[<<CharAt(p)>>])

\* witness of C10: the level N1 of the first character wins over the N5 of
\* the second
C10_Witness ==
    /\ pc = "level_done"
    /\ word.kanji = Some(<<[text |-> <<26332, 26085>>]>>)
    /\ DOMAIN kanji_jlpt_map = {<<26332>>, <<26085>>}
    /\ kanji_jlpt_map[<<26332>>] = "N1"
    /\ kanji_jlpt_map[<<26085>>] = "N5"
    /\ jlpt_level = Some("N1")

\* the matched characters in scan order: forms in order, characters from
\* left to right
ScannedBefore(p, q) == p[1] < q[1] \/ (p[1] = q[1] /\ p[2] < q[2])
FirstMatched(lookup) ==
    CHOOSE p \in Matched(lookup) : \A q \in Matched(lookup) : q = p \/ ScannedBefore(p, q)

\* the sum of the tiers of a set of places of the word
RECURSIVE TierSum(_)
TierSum(P) ==
    IF P = {} THEN 0
    ELSE LET p == CHOOSE q \in P : TRUE
         IN  kanji_tier_map[<<CharAt(p)>>] + TierSum(P \ {p})

\* C11: on a word with at least one matched tier, get_word_frequency_tier
\* returns the largest matched tier under 'conservative' and under a strategy
\* name it does not know, the mean of the matched tiers rounded up under
\* 'average', and the tier of the first matched character in scan order under
\* 'first'; the tiers [4, 1] give 4, 3 and 4.
C11_Strategies ==
    LET M == Matched(kanji_tier_map)
        TierAt(p) == kanji_tier_map[<<CharAt(p)>>]
        IsMax(t) == (\E p \in M : TierAt(p) = t) /\ (\A p \in M : TierAt(p) <= t)
        IsMeanUp(t) == /\ t * Cardinality(M) >= TierSum(M)
                       /\ (t - 1) * Cardinality(M) < TierSum(M)
    IN  (pc = "tier_done" /\ M # {}) =>
            /\ word_tier # None
            /\ strategy = "conservative" => IsMax(Val(word_tier))
            /\ strategy = "average" => IsMeanUp(Val(word_tier))
            /\ strategy = "first" => Val(word_tier) = TierAt(FirstMatched(kanji_tier_map))
            /\ strategy \notin {"conservative", "average", "first"} => IsMax(Val(word_tier))
            /\ (/\ \A i \in 1..Len(FormsOfWord) : FormsOfWord[i].text = <<26332, 26085>>
                /\ {<<26332>>, <<26085>>} \subseteq DOMAIN kanji_tier_map
                /\ kanji_tier_map[<<26332>>] = 4
                /\ kanji_tier_map[<<26085>>] = 1)
                   => word_tier = Some(IF strategy = "average" THEN 3 ELSE 4)

\* witness of C11: the tiers 4 and 1 of a form of two ideographs under
\* 'average' give tier 3
C11_Witness ==
    /\ pc = "tier_done"
    /\ word.kanji = Some(<<[text |-> <<26332, 26085>>]>>)
    /\ DOMAIN kanji_tier_map = {<<26332>>, <<26085>>}
    /\ kanji_tier_map[<<26332>>] = 4
    /\ kanji_tier_map[<<26085>>] = 1
    /\ strategy = "average"
    /\ word_tier = Some(3)

\* C20: only the characters in U+4E00..U+9FFF take part in the classification
\* of a word.  A word with kanji forms is non_jlpt, and has no tier, exactly
\* when none of its characters is both in the range and a key of the lookup;
\* otherwise its level is the level of such a character and its tier lies
\* between the smallest and the largest tier of such characters, whatever
\* the lookup holds for the characters outside the range.
C20_OnlyIdeographs ==
    LET InRange(c) == 19968 <= c /\ c <= 40959
        Contributing(lookup) ==
            {p \in Places : InRange(CharAt(p)) /\ <<CharAt(p)>> \in DOMAIN lookup}
        L == Contributing(kanji_jlpt_map)
        T == Contributing(kanji_tier_map)
    IN  Len(FormsOfWord) >= 1 =>
            /\ pc = "level_done" =>
                  /\ jlpt_level = Some("non_jlpt") <=> L = {}
                  /\ L # {} => \E p \in L : jlpt_level = Some(kanji_jlpt_map[<<CharAt(p)>>])
            /\ pc = "tier_done" =>
                  /\ word_tier = None <=> T = {}
                  /\ T # {} =>
                        /\ \E p \in T : kanji_tier_map[<<CharAt(p)>>] <= Val(word_tier)
                        /\ \E p \in T : kanji_tier_map[<<CharAt(p)>>] >= Val(word_tier)

\* witness of C20: the only key of the lookup that occurs in the word is the
\* iteration mark, of level N1, and the word is non_jlpt
C20_Witness ==
    /\ pc = "level_done"
    /\ word.kanji = Some(<<[text |-> <<26085, 12293>>]>>)
    /\ DOMAIN kanji_jlpt_map = {<<12293>>}
    /\ kanji_jlpt_map[<<12293>>] = "N1"
    /\ jlpt_level = Some("non_jlpt")

(***************************************************************************)
(* jmdict_utils.process_word and what it calls.  A word of the word        *)
(* dictionary is a record with the fields kanji and kana (None when the    *)
(* key is missing, or Some list of forms) and sense (a list of senses).  A *)
(* form has a text (a string, empty as well; a form without the key text   *)
(* fares as one with the empty text, None and "" being both falsy) and the *)
(* flag common.  A sense has the lists partOfSpeech, gloss, info and misc. *)
(* Example sentences are left out: the run is one without --examples.      *)
(***************************************************************************)
\* word.get("kana", [])
KanaForms(w) == IF w.kana = None THEN <<>> ELSE Val(w.kana)

\* the index of the first form flagged common, 0 when there is none
FirstCommon(forms) ==
    IF \E i \in 1..Len(forms) : forms[i].common
    THEN CHOOSE i \in 1..Len(forms) :
             forms[i].common /\ \A j \in 1..(i - 1) : ~forms[j].common
    ELSE 0

\* (the mutant takes a word with any form at all for a common word)
is_common_word_AnyForm(w) == KanjiForms(w) # <<>> \/ KanaForms(w) # <<>>

\* lines 241-245
is_common_word(w) == FirstCommon(KanjiForms(w)) # 0 \/ FirstCommon(KanaForms(w)) # 0

\* (the mutant takes the first kanji form whether it is flagged or not)
get_primary_form_FirstKanji(w) ==
    LET kanji == KanjiForms(w)
        kana  == KanaForms(w)
    IN  IF kanji # <<>> /\ kanji[1].text # <<>> THEN <<Some(kanji[1].text), "kanji">>
        ELSE IF FirstCommon(kana) # 0
             THEN <<Some(kana[FirstCommon(kana)].text), "kana">>
        ELSE IF kana # <<>> /\ kana[1].text # <<>> THEN <<Some(kana[1].text), "kana">>
        ELSE <<None, "">>

\* lines 248-271: the pair (form, form type)
get_primary_form(w) ==
    LET kanji == KanjiForms(w)
        kana  == KanaForms(w)
    IN  IF FirstCommon(kanji) # 0
        THEN <<Some(kanji[FirstCommon(kanji)].text), "kanji">>
        ELSE IF kanji # <<>> /\ kanji[1].text # <<>> THEN <<Some(kanji[1].text), "kanji">>
        ELSE IF FirstCommon(kana) # 0
             THEN <<Some(kana[FirstCommon(kana)].text), "kana">>
        ELSE IF kana # <<>> /\ kana[1].text # <<>> THEN <<Some(kana[1].text), "kana">>
        ELSE <<None, "">>

\* lines 274-281: the texts of the kana forms that have one
RECURSIVE get_readings_from(_, _)
get_readings_from(kana, i) ==
    IF i > Len(kana) THEN <<>>
    ELSE (IF kana[i].text # <<>> THEN <<kana[i].text>> ELSE <<>>)
             \o get_readings_from(kana, i + 1)

get_readings(w) == get_readings_from(KanaForms(w), 1)

\* tags.get(code, code)
TagText(tags, code) == IF code \in DOMAIN tags THEN tags[code] ELSE code

\* the texts of the codes that have a text (lines 290-293 and 313-316)
TagTexts(tags, codes) ==
    SelectSeq([i \in 1..Len(codes) |-> TagText(tags, codes[i])], LAMBDA t : t # "")

\* lines 299-303: the texts of the English glosses that have one
EngGlosses(gloss) ==
    LET eng == SelectSeq(gloss, LAMBDA g : g.lang = "eng" /\ g.text # "")
    IN  [i \in 1..Len(eng) |-> eng[i].text]

\* lines 284-322.  The string returned is kept as the list of its parts,
\* which " ".join puts together: no part is empty, so the string is empty
\* exactly when the list is.
format_sense(sense, tags) ==
    LET pos_tags    == TagTexts(tags, sense.partOfSpeech)
        glosses     == EngGlosses(sense.gloss)
        misc_labels == TagTexts(tags, sense.misc)
    IN  (IF pos_tags # <<>> THEN <<<<"(", pos_tags, ")">>>> ELSE <<>>)
            \o (IF glosses # <<>> THEN <<glosses>> ELSE <<>>)
            \o (IF sense.info # <<>> THEN <<<<"[", sense.info, "]">>>> ELSE <<>>)
            \o (IF misc_labels # <<>> THEN <<<<"<i>(", misc_labels, ")</i>">>>> ELSE <<>>)

\* lines 379-382: f"{i + 1}. {sense_text}" for the senses with a text
RECURSIVE FormatSenses(_, _, _)
FormatSenses(sense, tags, i) ==
    IF i > Len(sense) THEN <<>>
    ELSE LET sense_text == format_sense(sense[i], tags)
         IN  (IF sense_text # <<>> THEN <<<<i, sense_text>>>> ELSE <<>>)
                 \o FormatSenses(sense, tags, i + 1)

\* (the mutant makes a record of a word without a primary form)
process_word_AnyForm(w, tags) ==
    LET primary == get_primary_form(w)
        senses  == FormatSenses(w.sense, tags, 1)
    IN  IF senses = <<>> THEN None
        ELSE Some([word      |-> IF primary[1] = None THEN <<>> ELSE Val(primary[1]),
                   readings  |-> get_readings(w),
                   senses    |-> senses,
                   is_common |-> is_common_word(w),
                   form_type |-> primary[2]])

\* lines 350-402
process_word(w, tags) ==
    LET primary == get_primary_form(w)
        senses  == FormatSenses(w.sense, tags, 1)
    IN  IF ~TruthyStr(primary[1]) THEN None
        ELSE IF senses = <<>> THEN None
        ELSE Some([word      |-> Val(primary[1]),
                   readings  |-> get_readings(w),
                   senses    |-> senses,
                   is_common |-> is_common_word(w),
                   form_type |-> primary[2]])

(***************************************************************************)
(* get_primary_form applied to a word.                                     *)
(***************************************************************************)
\* the lists of up to n forms with a text among texts
FormsUpTo(texts, n) == SeqsUpTo([text : texts, common : BOOLEAN], n)

\* the words: kanji forms of no text, U+65E5 or U+66DC, kana forms of no
\* text, U+3042 or U+3044, either key missing as well
FormWords ==
    [kanji : Opt(FormsUpTo({<<>>, <<26085>>, <<26332>>}, MaxForms)),
     kana  : Opt(FormsUpTo({<<>>, <<12354>>, <<12356>>}, MaxForms)),
     sense : {<<>>}]

InitForm ==
    /\ word \in FormWords
    /\ pc = "form_call"
    /\ form = None
    /\ kanji_jlpt_map = EmptyMap
    /\ kanji_tier_map = EmptyMap
    /\ strategy = "conservative"
    /\ jlpt_level = None
    /\ word_tier = None
    /\ characters = <<>>
    /\ mi = 0
    /\ kanji_freq_map = <<>>
    /\ ci = 0
    /\ jlpt_groups = [b \in BucketNames |-> <<>>]
    /\ processed = 0
    /\ skipped = 0
    /\ NoRun

\* form, form_type = get_primary_form(word)
CallPrimaryForm ==
    /\ pc = "form_call"
    /\ form' = get_primary_form(word)
    /\ pc' = "form_done"
    /\ UNCHANGED <<characters, mi, kanji_jlpt_map, kanji_freq_map, kanji_tier_map, ci,
                   jlpt_groups, processed, skipped, word, strategy, jlpt_level, word_tier,
                   inputVars, outputVars>>

NextForm == CallPrimaryForm

SpecForm == InitForm /\ [][NextForm]_vars

\* the form of a list that is flagged common and has no flagged form before it
IsFirstCommon(forms, i) == forms[i].common /\ \A j \in 1..(i - 1) : ~forms[j].common
HasCommon(forms) == \E i \in 1..Len(forms) : forms[i].common

\* C17 as claimed: the primary form is the first kanji form flagged common,
\* else the first kanji form, else the first kana form flagged common, else
\* the first kana form, of type kanji in the first two cases and kana in the
\* last two, and no form is returned only when the word has no form at all.
\* The code passes over a first form of empty text that is not flagged.
C17_StrictPriority ==
    LET kanji == IF word.kanji = None THEN <<>> ELSE Val(word.kanji)
        kana  == IF word.kana = None THEN <<>> ELSE Val(word.kana)
    IN  pc = "form_done" =>
            /\ HasCommon(kanji) =>
                  \E i \in 1..Len(kanji) :
                      IsFirstCommon(kanji, i) /\ form = <<Some(kanji[i].text), "kanji">>
            /\ (~HasCommon(kanji) /\ kanji # <<>>) => form = <<Some(kanji[1].text), "kanji">>
            /\ (kanji = <<>> /\ HasCommon(kana)) =>
                  \E i \in 1..Len(kana) :
                      IsFirstCommon(kana, i) /\ form = <<Some(kana[i].text), "kana">>
            /\ (kanji = <<>> /\ ~HasCommon(kana) /\ kana # <<>>)
                  => form = <<Some(kana[1].text), "kana">>
            /\ form[1] = None <=> (kanji = <<>> /\ kana = <<>>)

\* C17: the primary form is the first kanji form flagged common (whatever its
\* text), else the first kanji form when its text is not empty, else the
\* first kana form flagged common (whatever its text), else the first kana
\* form when its text is not empty, of type kanji in the first two cases and
\* kana in the last two; the pair (None, "") is returned exactly when no
\* form is flagged common and neither first form has a text.
C17_PriorityOfForms ==
    LET kanji == IF word.kanji = None THEN <<>> ELSE Val(word.kanji)
        kana  == IF word.kana = None THEN <<>> ELSE Val(word.kana)
        Usable(forms) == forms # <<>> /\ forms[1].text # <<>>
    IN  pc = "form_done" =>
            /\ HasCommon(kanji) =>
                  \E i \in 1..Len(kanji) :
                      IsFirstCommon(kanji, i) /\ form = <<Some(kanji[i].text), "kanji">>
            /\ (~HasCommon(kanji) /\ Usable(kanji)) => form = <<Some(kanji[1].text), "kanji">>
            /\ (~HasCommon(kanji) /\ ~Usable(kanji) /\ HasCommon(kana)) =>
                  \E i \in 1..Len(kana) :
                      IsFirstCommon(kana, i) /\ form = <<Some(kana[i].text), "kana">>
            /\ (~HasCommon(kanji) /\ ~Usable(kanji) /\ ~HasCommon(kana) /\ Usable(kana))
                  => form = <<Some(kana[1].text), "kana">>
            /\ form = <<None, "">> <=>
                  (~HasCommon(kanji) /\ ~Usable(kanji) /\ ~HasCommon(kana) /\ ~Usable(kana))

\* witness of C17: the second kanji form is the one flagged common and wins
\* over the first kanji form and over a common kana form
C17_Witness ==
    /\ pc = "form_done"
    /\ word.kanji = Some(<<[text |-> <<26085>>, common |-> FALSE],
                           [text |-> <<26332>>, common |-> TRUE]>>)
    /\ word.kana = Some(<<[text |-> <<12354>>, common |-> TRUE]>>)
    /\ form = <<Some(<<26332>>), "kanji">>

(***************************************************************************)
(* Properties of the kanji run.                                            *)
(***************************************************************************)
\* C14: in the kanji run a missing input file ends the run at the check of
\* its existence, a file that cannot be read or parsed ends it in the
\* loader, and data without the key characters ends it at the validation;
\* in each case the exit status is 1, the output directory has not been
\* created and no deck file has been written.
C14_KanjiFatalErrors ==
    LET Before(stages) == pc \in stages \cup {"exit"}
    IN  kanjidic_file # "ok" =>
            /\ output_dir = FALSE
            /\ files = <<>>
            /\ exit_status \in {None, Some(1)}
            /\ pc = "exit" <=> exit_status = Some(1)
            /\ kanjidic_file = "missing" => Before({"map", "start"})
            /\ kanjidic_file \in {"invalid_json", "unreadable"}
                  => Before({"map", "start", "load"})
            /\ kanjidic_file = "no_key" => Before({"map", "start", "load", "validate"})

\* witness of C14: the run over data without the key characters has ended
\* with status 1
C14_Witness ==
    /\ pc = "exit"
    /\ kanjidic_file = "no_key"
    /\ exit_status = Some(1)
    /\ output_dir = FALSE
    /\ files = <<>>

\* the level build_kanji_jlpt_map gives a character on its own, None when
\* it gives none
MappedLevel(char) ==
    LET m == MapCharacter(EmptyMap, char)
    IN  IF DOMAIN m = {} THEN None ELSE Some(m[Val(char.literal)])

\* the records among the first n of the collection that are mapped to level b
IndexesOf(b, n) == {i \in 1..n : MappedLevel(characters[i]) = Some(b)}

\* C18: in the kanji run the writer is called for the non-empty buckets
\* only, once for each, in the order N5, N4, N3, N2, N1, and never before
\* the bucketing is over; the file of bucket b is named jlpt_<b>_kanji.csv
\* and its rows carry the label b.
C18_OneFilePerBucket ==
    LET order == <<"N5", "N4", "N3", "N2", "N1">>
        Taken == {i \in 1..ti : jlpt_groups[order[i]] # <<>>}
        Place(i) == Cardinality({j \in Taken : j <= i})
    IN  pc \in {"map", "start", "load", "validate", "tiers", "group", "mkdir", "write",
                "done", "exit"} =>
            /\ pc \notin {"write", "done"} => (files = <<>> /\ ti = 0)
            /\ pc = "done" => ti = 5
            /\ Len(files) = Cardinality(Taken)
            /\ \A i \in Taken :
                  /\ files[Place(i)].path = <<"jlpt_", order[i], "_kanji.csv">>
                  /\ \A k \in DOMAIN files[Place(i)].rows :
                        files[Place(i)].rows[k].tags[1] = <<order[i]>>

\* witness of C18: the run is over, N3 and N2 hold a record each, and the
\* two files written are those of N3 and N2
C18_Witness ==
    /\ pc = "done"
    /\ Len(jlpt_groups["N3"]) = 1
    /\ Len(jlpt_groups["N2"]) = 1
    /\ Len(files) = 2
    /\ files[1].path = <<"jlpt_", "N3", "_kanji.csv">>
    /\ files[2].path = <<"jlpt_", "N2", "_kanji.csv">>

\* C19: in the kanji run the records of a bucket are the records of the
\* input mapped to the bucket's level, in the order of the input (record k
\* of bucket b comes from the k-th such record), and row k of a deck file is
\* made from record k of its bucket.
C19_OrderPreserved ==
    LET order == <<"N5", "N4", "N3", "N2", "N1">>
        From(b, k) == CHOOSE i \in IndexesOf(b, ci) :
                          Cardinality({j \in IndexesOf(b, ci) : j <= i}) = k
        BucketOf(f) == CHOOSE b \in BucketNames : f.path[2] = b
    IN  pc \in {"group", "mkdir", "write", "done"} =>
            /\ \A b \in BucketNames :
                  /\ Len(jlpt_groups[b]) = Cardinality(IndexesOf(b, ci))
                  /\ \A k \in 1..Len(jlpt_groups[b]) :
                        /\ jlpt_groups[b][k].kanji = Val(characters[From(b, k)].literal)
                        /\ jlpt_groups[b][k].grade = characters[From(b, k)].grade
                        /\ jlpt_groups[b][k].frequency = characters[From(b, k)].frequency
            /\ \A n \in 1..Len(files) :
                  /\ Len(files[n].rows) = Len(jlpt_groups[BucketOf(files[n])])
                  /\ \A k \in 1..Len(files[n].rows) :
                        files[n].rows[k].kanji = jlpt_groups[BucketOf(files[n])][k].kanji

\* witness of C19: two records of level N5 with different literals, U+4E8C
\* before U+4E00, and a file whose rows keep that order
C19_Witness ==
    /\ pc = "done"
    /\ Len(characters) = 2
    /\ characters[1].literal = Some(<<20108>>)
    /\ characters[2].literal = Some(<<CJK_FIRST>>)
    /\ Len(jlpt_groups["N5"]) = 2
    /\ Len(files) = 1
    /\ files[1].rows[1].kanji = <<20108>>
    /\ files[1].rows[2].kanji = <<CJK_FIRST>>

(***************************************************************************)
(* The vocabulary run: main of create_vocab_decks, without --examples.     *)
(***************************************************************************)
\* longest word collection
MaxWords == 2

\* lines 185-193: the keys of jlpt_groups
VocabBucketNames == {"N5", "N4", "N3", "N2", "N1", "kana_only", "non_jlpt"}

\* jmdict_utils.load_json, lines 15-26: TRUE when the loader ends the run
\* with sys.exit(1)
load_json_exits(file) == file \in {"missing", "invalid_json", "unreadable"}

\* jmdict_utils.build_kanji_jlpt_map, lines 48-69: the loop, then the return
RECURSIVE MapLoop(_, _)
MapLoop(chars, n) ==
    IF n = 0 THEN EmptyMap ELSE MapCharacter(MapLoop(chars, n - 1), chars[n])

\* kanjidic_data.get("characters", []) and jmdict_data.get("words", [])
CharactersOf(file, chars) == IF file = "no_key" THEN <<>> ELSE chars
WordsOf(file, ws) == IF file = "no_key" THEN <<>> ELSE ws

\* (the mutant builds the map from the first record only)
build_kanji_jlpt_map_FirstOnly(file, chars) ==
    MapLoop(CharactersOf(file, chars), IF CharactersOf(file, chars) = <<>> THEN 0 ELSE 1)

build_kanji_jlpt_map(file, chars) ==
    MapLoop(CharactersOf(file, chars), Len(CharactersOf(file, chars)))

\* jmdict_data.get("tags", {}): the tag n has a text, the tag x an empty one
jmdict_tags == ("n" :> "noun") @@ ("x" :> "")

\* (the mutant appends the record to every bucket)
AppendTo_Everywhere(groups, key, result) ==
    [b \in DOMAIN groups |-> Append(groups[b], result)]

\* line 207: jlpt_groups[jlpt_level].append(result)
AppendTo(groups, key, result) == [groups EXCEPT ![key] = Append(@, result)]

\* lines 140-147: the word dictionary must exist
VocabCheckJmdict ==
    /\ pc = "v_start"
    /\ IF jmdict_file = "missing"
       THEN /\ Exit(1)
            /\ UNCHANGED <<output_dir, files, ti>>
       ELSE /\ pc' = "v_check"
            /\ UNCHANGED outputVars
    /\ UNCHANGED <<characters, mi, kanji_jlpt_map, kanji_freq_map, kanji_tier_map, ci,
                   jlpt_groups, processed, skipped, word, strategy, jlpt_level, word_tier,
                   form, inputVars>>

\* lines 149-156: the kanji dictionary must exist
VocabCheckKanjidic ==
    /\ pc = "v_check"
    /\ IF kanjidic_file = "missing"
       THEN /\ Exit(1)
            /\ UNCHANGED <<output_dir, files, ti>>
       ELSE /\ pc' = "v_kanjidic"
            /\ UNCHANGED outputVars
    /\ UNCHANGED <<characters, mi, kanji_jlpt_map, kanji_freq_map, kanji_tier_map, ci,
                   jlpt_groups, processed, skipped, word, strategy, jlpt_level, word_tier,
                   form, inputVars>>

\* lines 158-161: kanjidic_data = load_json(kanjidic_file), then the map
VocabLoadKanjidic ==
    /\ pc = "v_kanjidic"
    /\ IF load_json_exits(kanjidic_file)
       THEN /\ Exit(1)
            /\ UNCHANGED <<output_dir, files, ti, kanji_jlpt_map>>
       ELSE /\ kanji_jlpt_map' = build_kanji_jlpt_map(kanjidic_file, characters)
            /\ pc' = "v_jmdict"
            /\ UNCHANGED outputVars
    /\ UNCHANGED <<characters, mi, kanji_freq_map, kanji_tier_map, ci,
                   jlpt_groups, processed, skipped, word, strategy, jlpt_level, word_tier,
                   form, inputVars>>

\* lines 163-196: jmdict_data = load_json(jmdict_file), the empty buckets
\* and the counters
VocabLoadJmdict ==
    /\ pc = "v_jmdict"
    /\ IF load_json_exits(jmdict_file)
       THEN /\ Exit(1)
            /\ UNCHANGED <<output_dir, files, ti, jlpt_groups, processed, skipped>>
       ELSE /\ jlpt_groups' = [b \in VocabBucketNames |-> <<>>]
            /\ processed' = 0
            /\ skipped' = 0
            /\ pc' = "v_words"
            /\ UNCHANGED outputVars
    /\ UNCHANGED <<characters, mi, kanji_jlpt_map, kanji_freq_map, kanji_tier_map, ci,
                   word, strategy, jlpt_level, word_tier, form, inputVars>>

\* (the mutant does not count a word left out for not being common)
VocabStep_SkipUncounted ==
    /\ pc = "v_words"
    /\ ci < Len(WordsOf(jmdict_file, words))
    /\ LET w      == WordsOf(jmdict_file, words)[ci + 1]
           result == process_word(w, jmdict_tags)
       IN  IF result # None
           THEN IF common_only /\ ~Val(result).is_common
                THEN UNCHANGED <<jlpt_groups, processed, skipped>>
                ELSE /\ jlpt_groups' =
                          AppendTo(jlpt_groups, get_word_jlpt_level(w, kanji_jlpt_map),
                                   Val(result))
                     /\ processed' = processed + 1
                     /\ skipped' = skipped
           ELSE /\ skipped' = skipped + 1
                /\ UNCHANGED <<jlpt_groups, processed>>
    /\ ci' = ci + 1
    /\ UNCHANGED <<pc, characters, mi, kanji_jlpt_map, kanji_freq_map, kanji_tier_map,
                   word, strategy, jlpt_level, word_tier, form, inputVars, outputVars>>

\* one iteration of the loop of lines 198-210
VocabStep ==
    /\ pc = "v_words"
    /\ ci < Len(WordsOf(jmdict_file, words))
    /\ LET w      == WordsOf(jmdict_file, words)[ci + 1]
           result == process_word(w, jmdict_tags)
       IN  IF result # None
           THEN IF common_only /\ ~Val(result).is_common
                THEN /\ skipped' = skipped + 1
                     /\ UNCHANGED <<jlpt_groups, processed>>
                ELSE /\ jlpt_groups' =
                          AppendTo(jlpt_groups, get_word_jlpt_level(w, kanji_jlpt_map),
                                   Val(result))
                     /\ processed' = processed + 1
                     /\ skipped' = skipped
           ELSE /\ skipped' = skipped + 1
                /\ UNCHANGED <<jlpt_groups, processed>>
    /\ ci' = ci + 1
    /\ UNCHANGED <<pc, characters, mi, kanji_jlpt_map, kanji_freq_map, kanji_tier_map,
                   word, strategy, jlpt_level, word_tier, form, inputVars, outputVars>>

\* lines 212-214: the loop is over
VocabWordsDone ==
    /\ pc = "v_words"
    /\ ci = Len(WordsOf(jmdict_file, words))
    /\ pc' = "v_mkdir"
    /\ UNCHANGED <<characters, mi, kanji_jlpt_map, kanji_freq_map, kanji_tier_map, ci,
                   jlpt_groups, processed, skipped, word, strategy, jlpt_level, word_tier,
                   form, inputVars, outputVars>>

\* line 217: output_dir.mkdir(exist_ok=True)
VocabMakeOutputDir ==
    /\ pc = "v_mkdir"
    /\ output_dir' = TRUE
    /\ pc' = "v_write"
    /\ UNCHANGED <<characters, mi, kanji_jlpt_map, kanji_freq_map, kanji_tier_map, ci,
                   jlpt_groups, processed, skipped, word, strategy, jlpt_level, word_tier,
                   form, inputVars, exit_status, files, ti>>

\* lines 222-248: the buckets in the order main writes them
VocabOrder == <<"N5", "N4", "N3", "N2", "N1", "kana_only", "non_jlpt">>

\* lines 225, 232 and 242: output_dir / f"jlpt_{tier}_vocab{suffix}.csv",
\* the suffix being empty
VocabPath(bucket) == <<"jlpt_", bucket, "_vocab", "", ".csv">>

\* lines 226, 236 and 246: the tier label handed to create_vocab_csv
VocabLabel(bucket) == IF bucket = "kana_only" THEN "kana" ELSE bucket

\* create_vocab_csv, lines 33-56: the row of one record
VocabRow(w, jlpt_tier) ==
    [word |-> w.word,
     back |-> (IF w.readings # <<>> THEN <<<<"Reading:", w.readings>>>> ELSE <<>>)
                 \o (IF w.senses # <<>> THEN <<<<"Meanings:", w.senses>>>> ELSE <<>>),
     tags |-> <<jlpt_tier>>
                 \o (IF w.is_common THEN <<"common">> ELSE <<>>)
                 \o (IF w.form_type # "" THEN <<w.form_type>> ELSE <<>>)]

\* create_vocab_csv, lines 26-63: the file written, its rows below the header
create_vocab_csv(ws, output_path, jlpt_tier) ==
    [path |-> output_path,
     rows |-> [k \in 1..Len(ws) |-> VocabRow(ws[k], jlpt_tier)]]

\* lines 222-248: the loop over the five levels, then the files of the
\* kana-only and of the non-JLPT words; one bucket at a step
VocabWriteStep ==
    /\ pc = "v_write"
    /\ ti < Len(VocabOrder)
    /\ LET bucket == VocabOrder[ti + 1]
           ws     == jlpt_groups[bucket]
       IN  files' = IF ws # <<>>
                    THEN Append(files,
                                create_vocab_csv(ws, VocabPath(bucket), VocabLabel(bucket)))
                    ELSE files
    /\ ti' = ti + 1
    /\ UNCHANGED <<pc, characters, mi, kanji_jlpt_map, kanji_freq_map, kanji_tier_map, ci,
                   jlpt_groups, processed, skipped, word, strategy, jlpt_level, word_tier,
                   form, inputVars, exit_status, output_dir>>

\* lines 250-280: the summary is printed and main returns
VocabDone ==
    /\ pc = "v_write"
    /\ ti = Len(VocabOrder)
    /\ pc' = "v_done"
    /\ exit_status' = Some(0)
    /\ UNCHANGED <<characters, mi, kanji_jlpt_map, kanji_freq_map, kanji_tier_map, ci,
                   jlpt_groups, processed, skipped, word, strategy, jlpt_level, word_tier,
                   form, inputVars, output_dir, files, ti>>

(* The input of the vocabulary run.  The kanji dictionary, when it is ok,  *)
(* holds U+65E5 of level 4 (N5), U+66DC of level 2 and grade 7 (N2) and    *)
(* U+4E8C of level 1 (N1).  The word collections of up to MaxWords words   *)
(* draw the words from SmallWords, the collections of one word from        *)
(* WideWords.  A run whose files are not both loaded has no collection.    *)

VocabCharacters ==
    <<[literal |-> Some(<<26085>>), jlptLevel |-> Some(4), grade |-> Some(1),
       frequency |-> None],
      [literal |-> Some(<<26332>>), jlptLevel |-> Some(2), grade |-> Some(7),
       frequency |-> None],
      [literal |-> Some(<<20108>>), jlptLevel |-> Some(1), grade |-> None,
       frequency |-> None]>>

Form(text, common) == [text |-> text, common |-> common]
Sense(pos, gloss, info, misc) ==
    [partOfSpeech |-> pos, gloss |-> gloss, info |-> info, misc |-> misc]

\* a sense with an English gloss and a tag; senses whose formatted text is
\* empty: no field at all, a gloss of another language, an English gloss
\* without a text, tags without a text; a sense with a note only
GoodSense == Sense(<<"n">>, <<[lang |-> "eng", text |-> "day"]>>, <<>>, <<>>)
BlankSenses ==
    {Sense(<<>>, <<>>, <<>>, <<>>),
     Sense(<<>>, <<[lang |-> "fre", text |-> "jour"]>>, <<>>, <<>>),
     Sense(<<"x">>, <<[lang |-> "eng", text |-> ""]>>, <<>>, <<"x">>)}
NoteSense == Sense(<<>>, <<>>, <<"note">>, <<>>)

VocabWordsOf(kanji, kana, sense) == [kanji : kanji, kana : kana, sense : sense]

SmallWords ==
    VocabWordsOf({None,
                  Some(<<Form(<<26085>>, TRUE)>>),
                  Some(<<Form(<<26332, 26085>>, FALSE)>>)},
                 {Some(<<Form(<<12354>>, FALSE)>>)},
                 {<<>>, <<GoodSense>>})

WideWords ==
    VocabWordsOf({None,
                  Some(<<>>),
                  Some(<<Form(<<>>, FALSE)>>),
                  Some(<<Form(<<>>, TRUE)>>),
                  Some(<<Form(<<26085>>, FALSE), Form(<<20108>>, TRUE)>>),
                  Some(<<Form(<<12293>>, FALSE)>>)},
                 {None,
                  Some(<<Form(<<>>, FALSE)>>),
                  Some(<<Form(<<12354>>, TRUE)>>),
                  Some(<<Form(<<>>, FALSE), Form(<<12356>>, FALSE)>>)},
                 {<<>>, <<GoodSense>>, <<NoteSense>>}
                     \cup {<<s>> : s \in BlankSenses}
                     \cup {<<s, GoodSense>> : s \in BlankSenses})

InitVocab ==
    /\ kanjidic_file \in FileStates
    /\ jmdict_file \in FileStates
    /\ common_only \in BOOLEAN
    /\ characters = IF kanjidic_file = "ok" THEN VocabCharacters ELSE <<>>
    /\ words \in IF jmdict_file = "ok" /\ kanjidic_file \in {"ok", "no_key"}
                 THEN SeqsUpTo(SmallWords, MaxWords) \cup {<<w>> : w \in WideWords}
                 ELSE {<<>>}
    /\ pc = "v_start"
    /\ mi = 0
    /\ kanji_jlpt_map = EmptyMap
    /\ kanji_freq_map = <<>>
    /\ kanji_tier_map = EmptyMap
    /\ ci = 0
    /\ jlpt_groups = [b \in VocabBucketNames |-> <<>>]
    /\ processed = 0
    /\ skipped = 0
    /\ word = None
    /\ strategy = "conservative"
    /\ jlpt_level = None
    /\ word_tier = None
    /\ form = None
    /\ exit_status = None
    /\ output_dir = FALSE
    /\ files = <<>>
    /\ ti = 0

NextVocab ==
    \/ VocabCheckJmdict \/ VocabCheckKanjidic
    \/ VocabLoadKanjidic \/ VocabLoadJmdict
    \/ VocabStep \/ VocabWordsDone
    \/ VocabMakeOutputDir \/ VocabWriteStep \/ VocabDone

SpecVocab == InitVocab /\ [][NextVocab]_vars

\* a run of either script
InitRuns == InitKanji \/ InitVocab
NextRuns == NextKanji \/ NextVocab
SpecRuns == InitRuns /\ [][NextRuns]_vars

(***************************************************************************)
(* Properties of the vocabulary run.                                       *)
(***************************************************************************)
\* C15 as claimed: in the vocabulary run a dictionary file that is missing,
\* cannot be parsed or lacks its top-level key (characters in the kanji
\* dictionary, words in the word dictionary) aborts the run: the run never
\* gets to the bucketing, no output directory is made and no deck file is
\* written.  The code takes a dictionary without its key for an empty one.
C15_VocabFatalErrors ==
    (/\ pc \in {"v_start", "v_check", "v_kanjidic", "v_jmdict", "v_words", "v_mkdir",
                "v_write", "v_done", "exit"}
     /\ \/ kanjidic_file \in {"missing", "invalid_json", "no_key"}
        \/ jmdict_file \in {"missing", "invalid_json", "no_key"})
        => /\ output_dir = FALSE
           /\ files = <<>>
           /\ pc \in {"v_start", "v_check", "v_kanjidic", "v_jmdict", "exit"}
           /\ exit_status # Some(0)

\* the word the loop of main takes next, and whether its formatted senses
\* are all empty: no tag with a text, no English gloss with a text, no note
NextWordOf == WordsOf(jmdict_file, words)[ci + 1]
NoSenseText(w) ==
    \A i \in 1..Len(w.sense) :
        LET s == w.sense[i]
            HasText(code) == IF code \in DOMAIN jmdict_tags
                             THEN jmdict_tags[code] # "" ELSE code # ""
        IN  /\ \A k \in 1..Len(s.partOfSpeech) : ~HasText(s.partOfSpeech[k])
            /\ \A k \in 1..Len(s.gloss) : s.gloss[k].lang # "eng" \/ s.gloss[k].text = ""
            /\ s.info = <<>>
            /\ \A k \in 1..Len(s.misc) : ~HasText(s.misc[k])
NoPrimaryForm(w) == get_primary_form(w)[1] \in {None, Some(<<>>)}

\* C16: for a word with no primary form or with no sense of a non-empty
\* formatted text process_word returns None, and the step of main that
\* takes the word leaves every bucket as it is, counts the word as skipped,
\* does not end the run and goes on with the next word.
C16_UnusableWordSkipped ==
    [][ (/\ pc = "v_words"
         /\ ci < Len(WordsOf(jmdict_file, words))
         /\ NoPrimaryForm(NextWordOf) \/ NoSenseText(NextWordOf))
            => /\ process_word(NextWordOf, jmdict_tags) = None
               /\ jlpt_groups' = jlpt_groups
               /\ skipped' = skipped + 1
               /\ processed' = processed
               /\ ci' = ci + 1
               /\ pc' = "v_words"
               /\ exit_status' = None ]_vars

\* witness of C16: a word without senses was skipped, the word behind it
\* was bucketed, and the run came to its end
C16_Witness ==
    /\ pc = "v_done"
    /\ Len(words) = 2
    /\ words[1].sense = <<>>
    /\ words[2].sense = <<GoodSense>>
    /\ words[2].kanji = Some(<<Form(<<26085>>, TRUE)>>)
    /\ skipped = 1
    /\ processed = 1
    /\ Len(jlpt_groups["N5"]) = 1

(***************************************************************************)
(* Properties of the buckets of both runs.                                 *)
(***************************************************************************)
\* the step from jlpt_groups to jlpt_groups' puts one record at the end of
\* bucket b and leaves the other buckets as they are
OneMoreIn(b) ==
    /\ Len(jlpt_groups'[b]) = Len(jlpt_groups[b]) + 1
    /\ SubSeq(jlpt_groups'[b], 1, Len(jlpt_groups[b])) = jlpt_groups[b]
    /\ \A c \in DOMAIN jlpt_groups : c # b => jlpt_groups'[c] = jlpt_groups[c]
    /\ DOMAIN jlpt_groups' = DOMAIN jlpt_groups
NewIn(b) == jlpt_groups'[b][Len(jlpt_groups'[b])]

\* C12: a step of the bucketing loop of either script puts the record it
\* takes into no bucket, or once into one bucket: for a character the bucket
\* of its mapped level, for a word the bucket get_word_jlpt_level names for
\* the source word; no other step puts a record into a bucket.
C12_BucketExclusivity ==
    [][ /\ (pc = "group" /\ ci < Len(characters)) =>
               \/ jlpt_groups' = jlpt_groups
               \/ \E b \in BucketNames :
                     /\ OneMoreIn(b)
                     /\ MappedLevel(characters[ci + 1]) = Some(b)
                     /\ NewIn(b).kanji = Val(characters[ci + 1].literal)
        /\ (pc = "v_words" /\ ci < Len(WordsOf(jmdict_file, words))) =>
               \/ jlpt_groups' = jlpt_groups
               \/ \E b \in VocabBucketNames :
                     /\ OneMoreIn(b)
                     /\ get_word_jlpt_level(NextWordOf, kanji_jlpt_map) = b
                     /\ Some(NewIn(b).word) = get_primary_form(NextWordOf)[1]
        /\ pc \in {"mkdir", "write", "done", "v_mkdir", "v_write", "v_done"}
               => jlpt_groups' = jlpt_groups ]_vars

\* witness of C12: the vocabulary run is over; its kana word is in
\* kana_only, its word of level N2 in N2, and the other buckets are empty
C12_Witness ==
    /\ pc = "v_done"
    /\ Len(words) = 2
    /\ words[1].kanji = None
    /\ words[2].kanji = Some(<<Form(<<26332, 26085>>, FALSE)>>)
    /\ Len(jlpt_groups["kana_only"]) = 1
    /\ jlpt_groups["kana_only"][1].word = <<12354>>
    /\ Len(jlpt_groups["N2"]) = 1
    /\ jlpt_groups["N2"][1].word = <<26332, 26085>>
    /\ \A b \in VocabBucketNames \ {"kana_only", "N2"} : jlpt_groups[b] = <<>>

\* the places (bucket, index) of the records the buckets hold
Held == {p \in (DOMAIN jlpt_groups) \X (0..ci) : 1 <= p[2] /\ p[2] <= Len(jlpt_groups[p[1]])}
RecordAt(p) == jlpt_groups[p[1]][p[2]]

\* the record of a character of the input is the record r of a bucket
IsCharacter(r, char) ==
    /\ Some(r.kanji) = char.literal
    /\ Some(r.jlpt_level) = char.jlptLevel
    /\ r.grade = char.grade
    /\ r.frequency = char.frequency

\* a word of the input that is not skipped: it has a primary form and a
\* sense with a text, and it is common when only common words are asked for
HasCommonForm(w) ==
    \/ w.kanji # None /\ HasCommon(Val(w.kanji))
    \/ w.kana # None /\ HasCommon(Val(w.kana))
KeptWord(w) ==
    /\ ~NoPrimaryForm(w)
    /\ ~NoSenseText(w)
    /\ common_only => HasCommonForm(w)

\* C13: in both runs, during and after the bucketing loop, the buckets hold
\* the records of the input taken so far that are not skipped, and nothing
\* else: as many places as there are such records, each such record at some
\* place, and each place with such a record; the records taken and not held
\* are the ones counted as skipped.
C13_BucketCoverage ==
    /\ pc \in {"group", "mkdir", "write", "done"} =>
          LET Kept == {i \in 1..ci : MappedLevel(characters[i]) # None}
          IN  /\ Cardinality(Held) = Cardinality(Kept)
              /\ \A i \in Kept : \E p \in Held : IsCharacter(RecordAt(p), characters[i])
              /\ \A p \in Held : \E i \in Kept : IsCharacter(RecordAt(p), characters[i])
              /\ skipped = ci - Cardinality(Kept)
    /\ pc \in {"v_words", "v_mkdir", "v_write", "v_done"} =>
          LET ws   == WordsOf(jmdict_file, words)
              Kept == {i \in 1..ci : KeptWord(ws[i])}
          IN  /\ Cardinality(Held) = Cardinality(Kept)
              /\ \A i \in Kept :
                    \E p \in Held : Some(RecordAt(p)) = process_word(ws[i], jmdict_tags)
              /\ \A p \in Held :
                    \E i \in Kept : Some(RecordAt(p)) = process_word(ws[i], jmdict_tags)
              /\ skipped = ci - Cardinality(Kept)

\* witness of C13: a run for the common words only is over; the common word
\* is held by N5 and the word that is not common by no bucket
C13_Witness ==
    /\ pc = "v_done"
    /\ common_only
    /\ Len(words) = 2
    /\ words[1].kanji = Some(<<Form(<<26085>>, TRUE)>>)
    /\ words[2].kanji = Some(<<Form(<<26332, 26085>>, FALSE)>>)
    /\ words[2].sense = <<GoodSense>>
    /\ Len(jlpt_groups["N5"]) = 1
    /\ Cardinality(Held) = 1
    /\ skipped = 1

(***************************************************************************)
(* Properties of the passes of a run.                                      *)
(***************************************************************************)
\* the literals of the whole collection that get a level, a frequency rank
IndexesWithLevel == {i \in 1..Len(characters) : MappedLevel(characters[i]) # None}
LiteralsWithLevel == {Val(characters[i].literal) : i \in IndexesWithLevel}
LiteralsWithRank ==
    {Val(characters[i].literal) :
        i \in {j \in 1..Len(characters) : /\ HasLiteral(characters[j])
                                          /\ characters[j].frequency # None}}

\* C21: in each run the lookup maps are built from the whole character
\* collection before the first record is classified (the level map of the
\* vocabulary run, the frequency and tier maps of the kanji run) and no
\* later step changes them; no step changes the input; a deck file is
\* written only when every record has been classified, and no bucket
\* changes once the writing has begun.
C21_PassOrdering ==
    /\ [](/\ pc \in {"v_jmdict", "v_words", "v_mkdir", "v_write", "v_done"}
              => DOMAIN kanji_jlpt_map = LiteralsWithLevel
          /\ pc \in {"group", "mkdir", "write", "done"}
              => /\ DictKeys(kanji_freq_map) = LiteralsWithRank
                 /\ DOMAIN kanji_tier_map = LiteralsWithRank
          /\ pc \in {"mkdir", "write", "done"} => ci = Len(characters)
          /\ pc \in {"v_mkdir", "v_write", "v_done"}
              => ci = Len(WordsOf(jmdict_file, words))
          /\ files # <<>> => pc \in {"write", "done", "v_write", "v_done"})
    /\ [][ /\ characters' = characters
           /\ words' = words
           /\ pc \in {"v_jmdict", "v_words", "v_mkdir", "v_write", "v_done"}
               => kanji_jlpt_map' = kanji_jlpt_map
           /\ pc \in {"group", "mkdir", "write", "done"}
               => /\ kanji_freq_map' = kanji_freq_map
                  /\ kanji_tier_map' = kanji_tier_map
           /\ pc \in {"write", "done", "v_write", "v_done"}
               => jlpt_groups' = jlpt_groups ]_vars

\* witness of C21: the vocabulary run over the whole kanji dictionary is
\* over, with the three levels in the map, two words taken and a file written
C21_Witness ==
    /\ pc = "v_done"
    /\ Cardinality(DOMAIN kanji_jlpt_map) = 3
    /\ Len(words) = 2
    /\ ci = 2
    /\ Len(files) = 2

\* the index in the input of the record at place k of bucket b of the
\* kanji run: the k-th record mapped to level b
SourceIndex(b, k) ==
    CHOOSE i \in IndexesOf(b, ci) : Cardinality({j \in IndexesOf(b, ci) : j <= i}) = k

\* C22 as claimed: in the kanji run the keys of the tier map are the
\* literals of the records with a literal and a frequency rank, with or
\* without a level, and a bucketed record has a tier exactly when its own
\* source record has a frequency rank, the tier being the value of the tier
\* map for its literal.  A record without a rank gets the tier of another
\* record of the same literal.
C22_TierOfOwnRank ==
    pc \in {"group", "mkdir", "write", "done"} =>
        /\ DOMAIN kanji_tier_map = LiteralsWithRank
        /\ \A p \in Held :
              /\ RecordAt(p).tier # None
                    <=> characters[SourceIndex(p[1], p[2])].frequency # None
              /\ RecordAt(p).tier # None
                    => RecordAt(p).tier = Some(kanji_tier_map[RecordAt(p).kanji])

\* C22: in the kanji run the keys of the tier map are the literals of the
\* records with a literal and a frequency rank, with or without a level,
\* and a bucketed record has a tier exactly when some record of the
\* collection with its literal has a frequency rank (its own source record,
\* when the literals are unique), the tier being the value of the tier map
\* for its literal.
C22_TierOfLiteral ==
    LET Unique == \A i, j \in 1..Len(characters) :
                      (HasLiteral(characters[i]) /\ characters[i].literal = characters[j].literal)
                          => i = j
    IN  pc \in {"group", "mkdir", "write", "done"} =>
            /\ DOMAIN kanji_tier_map = LiteralsWithRank
            /\ \A p \in Held :
                  /\ RecordAt(p).tier # None <=> RecordAt(p).kanji \in LiteralsWithRank
                  /\ RecordAt(p).tier # None
                        => RecordAt(p).tier = Some(kanji_tier_map[RecordAt(p).kanji])
                  /\ Unique => (RecordAt(p).tier # None
                                   <=> characters[SourceIndex(p[1], p[2])].frequency # None)

\* witness of C22: U+4E00 has a rank and no level, U+4E8C has a rank and
\* level 4; both are keys of the tier map and the record of U+4E8C in N5
\* has the tier of its literal
C22_Witness ==
    /\ pc = "done"
    /\ Len(characters) = 2
    /\ characters[1] = [literal |-> Some(<<CJK_FIRST>>), jlptLevel |-> None,
                        grade |-> None, frequency |-> Some(1)]
    /\ characters[2] = [literal |-> Some(<<20108>>), jlptLevel |-> Some(4),
                        grade |-> None, frequency |-> Some(2)]
    /\ DOMAIN kanji_tier_map = {<<CJK_FIRST>>, <<20108>>}
    /\ Len(jlpt_groups["N5"]) = 1
    /\ jlpt_groups["N5"][1].tier = Some(3)
    /\ kanji_tier_map[<<20108>>] = 3

(***************************************************************************)
(* The vocabulary run for the common words only, and the counters of both  *)
(* bucketing loops.                                                        *)
(***************************************************************************)
\* C23: in a vocabulary run with --common-only every record of every bucket
\* is marked common and is the record of a word taken so far of which some
\* kanji form or some kana form carries the common flag, and the step that
\* takes a word with no such form counts it as skipped and leaves every
\* bucket as it is; in a run without the flag a word is skipped only when
\* process_word gives no record for it, whether it is common or not.
C23_CommonOnly ==
    /\ []((pc \in {"v_words", "v_mkdir", "v_write", "v_done"} /\ common_only) =>
            \A p \in Held :
               /\ RecordAt(p).is_common
               /\ \E i \in 1..ci :
                     LET w == WordsOf(jmdict_file, words)[i]
                     IN  /\ Some(RecordAt(p)) = process_word(w, jmdict_tags)
                         /\ HasCommonForm(w))
    /\ [][ (pc = "v_words" /\ ci < Len(WordsOf(jmdict_file, words))) =>
              /\ (common_only /\ ~HasCommonForm(NextWordOf))
                    => /\ skipped' = skipped + 1
                       /\ processed' = processed
                       /\ jlpt_groups' = jlpt_groups
              /\ ~common_only
                    => IF process_word(NextWordOf, jmdict_tags) = None
                       THEN /\ skipped' = skipped + 1
                            /\ jlpt_groups' = jlpt_groups
                       ELSE /\ skipped' = skipped
                            /\ processed' = processed + 1
                            /\ \E b \in VocabBucketNames :
                                  /\ OneMoreIn(b)
                                  /\ NewIn(b).is_common = HasCommonForm(NextWordOf) ]_vars

\* witness of C23: a run for the common words only is over; its first word,
\* with a sense and no common form, was skipped, and its second word is
\* held by N5 with the mark of a common word
C23_Witness ==
    /\ pc = "v_done"
    /\ common_only
    /\ Len(words) = 2
    /\ words[1].kanji = Some(<<Form(<<26332, 26085>>, FALSE)>>)
    /\ words[1].sense = <<GoodSense>>
    /\ words[2].kanji = Some(<<Form(<<26085>>, TRUE)>>)
    /\ words[2].sense = <<GoodSense>>
    /\ skipped = 1
    /\ processed = 1
    /\ Len(jlpt_groups["N5"]) = 1
    /\ jlpt_groups["N5"][1].is_common
    /\ jlpt_groups["N2"] = <<>>

\* the number of records in the buckets named by order[1..n]
RECURSIVE HeldIn(_, _)
HeldIn(order, n) ==
    IF n = 0 THEN 0 ELSE HeldIn(order, n - 1) + Len(jlpt_groups[order[n]])

\* C24: during and after the bucketing loop of either run, processed +
\* skipped is the number of input records taken so far and processed is the
\* number of records in all the buckets together.
C24_Counters ==
    /\ pc \in {"group", "mkdir", "write", "done"} =>
          /\ DOMAIN jlpt_groups = BucketNames
          /\ processed + skipped = ci
          /\ processed = HeldIn(TierOrder, Len(TierOrder))
          /\ ci <= Len(characters)
    /\ pc \in {"v_words", "v_mkdir", "v_write", "v_done"} =>
          /\ DOMAIN jlpt_groups = VocabBucketNames
          /\ processed + skipped = ci
          /\ processed = HeldIn(VocabOrder, Len(VocabOrder))
          /\ ci <= Len(WordsOf(jmdict_file, words))

\* witness of C24: the loop of a vocabulary run for the common words only
\* has taken two words with a sense, the second of them not common: one is
\* counted as processed and is in N5, the other is counted as skipped
C24_Witness ==
    /\ pc = "v_words"
    /\ common_only
    /\ ci = 2
    /\ words[1].kanji = Some(<<Form(<<26085>>, TRUE)>>)
    /\ words[1].sense = <<GoodSense>>
    /\ words[2].kanji = None
    /\ words[2].sense = <<GoodSense>>
    /\ processed = 1
    /\ skipped = 1
    /\ HeldIn(VocabOrder, Len(VocabOrder)) = 1

(***************************************************************************)
(* The values of the level map and the names get_word_jlpt_level returns.  *)
(***************************************************************************)
\* C25: every value of the map build_kanji_jlpt_map builds is one of N1,
\* N2, N3, N4, N5; with the finished map get_word_jlpt_level returns for
\* every word one of the seven names N5, N4, N3, N2, N1, kana_only,
\* non_jlpt; and the name it returns for the word the loop of
\* create_vocab_decks.main takes is a key of jlpt_groups.
C25_KnownBuckets ==
    /\ \A k \in DOMAIN kanji_jlpt_map : kanji_jlpt_map[k] \in {"N1", "N2", "N3", "N4", "N5"}
    /\ pc \in {"start", "v_jmdict"} =>
          \A w \in SmallWords \cup WideWords :
             get_word_jlpt_level(w, kanji_jlpt_map)
                \in {"N5", "N4", "N3", "N2", "N1", "kana_only", "non_jlpt"}
    /\ (pc = "v_words" /\ ci < Len(WordsOf(jmdict_file, words))) =>
          get_word_jlpt_level(NextWordOf, kanji_jlpt_map) \in DOMAIN jlpt_groups

\* witness of C25: the map of the vocabulary run has the values N5, N2 and
\* N1, and the word of the forms U+65E5 and U+4E8C was put into N1
C25_Witness ==
    /\ pc = "v_done"
    /\ kanji_jlpt_map = (<<26085>> :> "N5") @@ (<<26332>> :> "N2") @@ (<<20108>> :> "N1")
    /\ Len(words) = 1
    /\ words[1].kanji = Some(<<Form(<<26085>>, FALSE), Form(<<20108>>, TRUE)>>)
    /\ get_word_jlpt_level(words[1], kanji_jlpt_map) = "N1"
    /\ Len(jlpt_groups["N1"]) = 1

(***************************************************************************)
(* The level mapper of the kanji run against build_kanji_jlpt_map.         *)
(***************************************************************************)
\* no two records of the collection have the same literal
UniqueLiterals ==
    \A i, j \in 1..Len(characters) :
        characters[i].literal = characters[j].literal => i = j

\* build_kanji_jlpt_map has an entry for the literal of the character
HasEntry(char) == HasLiteral(char) /\ Val(char.literal) \in DOMAIN kanji_jlpt_map

\* C26: for a collection with unique literals, the step of
\* create_kanji_decks.main that takes a character appends its record to
\* bucket B exactly when the map of build_kanji_jlpt_map, built from the
\* same collection, maps its literal to B, and counts it as skipped exactly
\* when that map has no entry for it.
C26_MappersAgree ==
    [][ (pc = "group" /\ ci < Len(characters) /\ UniqueLiterals) =>
           LET char == characters[ci + 1]
           IN  /\ \A B \in BucketNames :
                     (/\ OneMoreIn(B)
                      /\ NewIn(B).kanji = Val(char.literal))
                        <=> (HasEntry(char) /\ kanji_jlpt_map[Val(char.literal)] = B)
               /\ (skipped' = skipped + 1 /\ jlpt_groups' = jlpt_groups) <=> ~HasEntry(char)
               /\ skipped' = skipped <=> HasEntry(char) ]_vars

\* witness of C26: U+4E00 of level 2 and grade 7 is mapped to N2 and held by
\* N2; U+4E8C without a level has no entry in the map and was skipped
C26_Witness ==
    /\ pc = "done"
    /\ UniqueLiterals
    /\ Len(characters) = 2
    /\ characters[1].literal = Some(<<CJK_FIRST>>)
    /\ characters[1].jlptLevel = Some(2)
    /\ characters[1].grade = Some(7)
    /\ characters[2].literal = Some(<<20108>>)
    /\ characters[2].jlptLevel = None
    /\ kanji_jlpt_map = (<<CJK_FIRST>> :> "N2")
    /\ Len(jlpt_groups["N2"]) = 1
    /\ jlpt_groups["N2"][1].kanji = <<CJK_FIRST>>
    /\ processed = 1
    /\ skipped = 1

(***************************************************************************)
(* The sizes of the tiers.                                                 *)
(***************************************************************************)
\* C27: for every number N of keys calculate_frequency_tiers gives tier 1
\* ceil(N/4) keys, the tiers 1 and 2 together ceil(N/2) and the tiers 1, 2
\* and 3 together ceil(3N/4); the sizes of any two tiers differ by at most
\* one and tier 1 is never smaller than another tier.
C27_BalancedTiers ==
    pc = "tiers_done" =>
        /\ 4 * TierSize(1) >= NKeys /\ 4 * (TierSize(1) - 1) < NKeys
        /\ 2 * (TierSize(1) + TierSize(2)) >= NKeys
        /\ 2 * (TierSize(1) + TierSize(2) - 1) < NKeys
        /\ 4 * (TierSize(1) + TierSize(2) + TierSize(3)) >= 3 * NKeys
        /\ 4 * (TierSize(1) + TierSize(2) + TierSize(3) - 1) < 3 * NKeys
        /\ TierSize(1) + TierSize(2) + TierSize(3) + TierSize(4) = NKeys
        /\ \A s, t \in 1..4 : TierSize(s) - TierSize(t) <= 1
        /\ \A t \in 1..4 : TierSize(1) >= TierSize(t)

\* witness of C27: six keys in tiers of 2, 1, 2 and 1 keys
C27_Witness ==
    /\ pc = "tiers_done"
    /\ NKeys = 6
    /\ TierSize(1) = 2
    /\ TierSize(2) = 1
    /\ TierSize(3) = 2
    /\ TierSize(4) = 1

(***************************************************************************)
(* The word classifiers and the order of the forms and of the characters.  *)
(***************************************************************************)
\* the sequences with the elements of s in some order
Shuffles(s) ==
    {[i \in 1..Len(s) |-> s[p[i]]] :
        p \in {q \in [1..Len(s) -> 1..Len(s)] :
                  \A i, j \in 1..Len(s) : q[i] = q[j] => i = j}}

\* the lists of the forms, in their order, with the characters of each text
\* in some order
RECURSIVE ShuffledTexts(_)
ShuffledTexts(forms) ==
    IF forms = <<>> THEN {<<>>}
    ELSE {<<[Head(forms) EXCEPT !.text = t]>> \o rest :
             t \in Shuffles(Head(forms).text), rest \in ShuffledTexts(Tail(forms))}

\* the words with the kanji forms of the word in some order and the
\* characters of each form in some order
Reorderings ==
    {[word EXCEPT !.kanji = Some(g)] :
        g \in UNION {Shuffles(f) : f \in ShuffledTexts(FormsOfWord)}}

\* the words with one more kanji form, of one character or of none, at some
\* place among the kanji forms of the word
WithOneMoreForm ==
    {[word EXCEPT !.kanji =
          Some(SubSeq(FormsOfWord, 1, k) \o <<[text |-> t]>>
                  \o SubSeq(FormsOfWord, k + 1, Len(FormsOfWord)))] :
        k \in 0..Len(FormsOfWord), t \in {<<>>} \cup {<<c>> : c \in WordChars}}

\* C28: get_word_jlpt_level, and get_word_frequency_tier with the strategy
\* conservative or average, give the same result for the word with its
\* kanji forms, and the characters of each form, in any other order; and a
\* word classified N1..N5 with one more kanji form is classified N1..N5 and
\* as at least as difficult.
C28_OrderIndependence ==
    /\ (pc = "level_done" /\ word.kanji # None) =>
          /\ \A w \in Reorderings :
                Some(get_word_jlpt_level(w, kanji_jlpt_map)) = jlpt_level
          /\ Val(jlpt_level) \in BucketNames =>
                \A w \in WithOneMoreForm :
                   /\ get_word_jlpt_level(w, kanji_jlpt_map) \in BucketNames
                   /\ AtLeastAsHard(get_word_jlpt_level(w, kanji_jlpt_map), Val(jlpt_level))
    /\ (pc = "tier_done" /\ word.kanji # None /\ strategy \in {"conservative", "average"}) =>
          \A w \in Reorderings :
             get_word_frequency_tier(w, kanji_tier_map, strategy) = word_tier

\* witness of C28: the word of the forms U+66DC and U+65E5, of the levels N2
\* and N5, is classified N2 as the word of the forms U+65E5 and U+66DC is, and
\* with a further form of level N2 or of no level it is not classified
\* easier
C28_Witness ==
    /\ pc = "level_done"
    /\ word.kanji = Some(<<[text |-> <<26332>>], [text |-> <<26085>>]>>)
    /\ kanji_jlpt_map = (<<26332>> :> "N2") @@ (<<26085>> :> "N5")
    /\ jlpt_level = Some("N2")
    /\ [kanji |-> Some(<<[text |-> <<26085>>], [text |-> <<26332>>]>>)] \in Reorderings
    /\ Cardinality(Reorderings) = 2
    /\ Cardinality(WithOneMoreForm) > 1

====
